---- MODULE Spec2Model ----
(***************************************************************************)
(* Tiered cache of status-im/proxy-common: the entry/TTL model             *)
(* (models/cache.go), the in-process backend (cache/l1/bigcache.go), the   *)
(* networked backend (cache/l2/keydb.go) and the tier orchestrator         *)
(* (cache/multi/multi.go).                                                 *)
(*                                                                         *)
(* Time is the wall clock in unix seconds (time.Now().Unix()).  Durations  *)
(* (time.Duration) are counted in milliseconds.  Every clock read of the   *)
(* code is a read of `now`; the clock may tick between any two backend     *)
(* calls and between the clock reads of the promotion.                     *)
(***************************************************************************)
EXTENDS Integers, Sequences, FiniteSets, TLC

\* ---------------------------------------------------------------- bounds
MaxTime == 3            \* the clock runs over 0..MaxTime
MaxTTL == 1             \* longest fresh / stale duration a caller passes, in seconds

MaxWorkers == 2         \* worker goroutines a scheduler starts over its life
MaxRuns == 2            \* task executions that are counted
MaxBackoff == 2         \* longest backoff of a key manager, in clock steps
MaxLimiters == 3        \* rate limiters one manager builds
MaxAttempts == 3        \* largest RetryOptions.MaxRetries
MaxBaseBackoff == 2     \* largest RetryOptions.BaseBackoff, in nanoseconds
MaxRequestsPerToken == 2  \* largest config.RequestsPerToken

Second == 1000          \* time.Second, in the model's duration unit (ms)

Keys == {"k1"}
SmallData == {"d1", "d2"}
BigData == "dBig"       \* a value whose serialized entry exceeds the L1 limit
DataVals == SmallData \cup {BigData}

\* durations a caller passes: whole seconds up to MaxTTL, and one sub-second value
Durations == {s * Second : s \in 0..MaxTTL} \cup {Second \div 2}
TTLs == [Fresh : Durations, Stale : Durations]

\* tier lists the orchestrator is constructed with (index 0 is read first)
Configs == {<< >>, <<"l1">>, <<"l1", "l2">>, <<"l1", "l2", "l2">>}

\* what other users of the backends store in them; kept to one TTL per
\* freshness case where the tier list is long
PlacedTTLs(n) ==
    IF n <= 2 THEN TTLs
    ELSE {[Fresh |-> Second, Stale |-> Second], [Fresh |-> 0, Stale |-> Second]}
PlacedData(n) == IF n <= 2 THEN DataVals ELSE {"d1", BigData}

\* what callers pass to the orchestrator's Set: every TTL and value on a
\* single tier, one TTL per freshness case on longer tier lists
SetTTLs(n) ==
    IF n <= 1 THEN TTLs
    ELSE {[Fresh |-> Second, Stale |-> Second], [Fresh |-> 0, Stale |-> Second]}
SetData(n) == IF n <= 1 THEN DataVals ELSE {"d1", BigData}

MaxEntrySize == 2       \* largest serialized entry the in-process backend accepts (cfg.MaxEntrySize, scaled)
NoExpiry == -1          \* a key the networked store holds without expiration

\* ------------------------------------------------------- entry / TTL model
Max(a, b) == IF a >= b THEN a ELSE b

\* a nil *models.CacheEntry
NilEntry == [Data |-> "", ExpiresAt |-> -1, StaleAt |-> -1, CreatedAt |-> -1]

\* CacheEntry.IsExpired, at clock value t
IsExpiredAtStale(ce, t) == t > ce.StaleAt
IsExpired(ce, t) == t > ce.ExpiresAt

\* CacheEntry.IsFresh, at clock value t
IsFreshStrict(ce, t) == t < ce.StaleAt
IsFresh(ce, t) == t <= ce.StaleAt

\* time.Duration(n) * time.Second
SecondsToDuration(n) == n * Second

\* int64(d.Seconds()): the float conversion truncates toward zero
DurationSeconds(d) == IF d >= 0 THEN d \div Second ELSE -((-d) \div Second)

\* CacheEntry.RemainingTTL, at clock value t
RemainingTTLOriginal(ce, t) ==
    LET freshRemaining == Max(ce.StaleAt - ce.CreatedAt, 0)
        staleRemaining == Max(ce.ExpiresAt - ce.StaleAt, 0)
    IN  [Fresh |-> SecondsToDuration(freshRemaining),
         Stale |-> SecondsToDuration(staleRemaining)]
RemainingTTLStaleShrinks(ce, t) ==
    LET freshRemaining == Max(ce.StaleAt - t, 0)
        staleRemaining == Max(ce.ExpiresAt - Max(ce.StaleAt, t), 0)
    IN  [Fresh |-> SecondsToDuration(freshRemaining),
         Stale |-> SecondsToDuration(staleRemaining)]
RemainingTTL(ce, t) ==
    LET freshRemaining == Max(ce.StaleAt - t, 0)
        staleRemaining == Max(ce.ExpiresAt - ce.StaleAt, 0)
    IN  [Fresh |-> SecondsToDuration(freshRemaining),
         Stale |-> SecondsToDuration(staleRemaining)]

\* models.CacheLevelFromIndex
CacheLevelFromIndex(index) ==
    IF index < 0 THEN "L1"
    ELSE IF index = 0 THEN "L1"
    ELSE IF index = 1 THEN "L2"
    ELSE "L" \o ToString(index + 1)

CacheLevelMiss == "MISS"

\* ------------------------------------------------------ stored payloads
\* json.Marshal(models.CacheEntry): the fields in declaration order
Marshal(ce) == <<ce.Data, ce.ExpiresAt, ce.StaleAt, ce.CreatedAt>>

\* bytes that json.Unmarshal rejects
CorruptPayload == <<"#">>

UnmarshalFails(p) == Len(p) # 4

\* json.Unmarshal into models.CacheEntry
Unmarshal(p) == [Data |-> p[1], ExpiresAt |-> p[2], StaleAt |-> p[3], CreatedAt |-> p[4]]

\* len(data) of a serialized entry, in the model's size unit
DataLen(d) == IF d = BigData THEN MaxEntrySize + 1 ELSE 1
PayloadLen(p) == DataLen(p[1])

\* what a backend holds under one key: absent, or a payload; `exp` is the
\* second from which the networked store's own expiration may have removed it
Absent == [present |-> FALSE, payload |-> << >>, exp |-> NoExpiry]
Slot(p, x) == [present |-> TRUE, payload |-> p, exp |-> x]

\* the entry a backend Set builds at clock value t
NewEntryNoFresh(val, ttl, t) ==
    [Data      |-> val,
     ExpiresAt |-> t + DurationSeconds(ttl.Fresh) + DurationSeconds(ttl.Stale),
     StaleAt   |-> t,
     CreatedAt |-> t]
NewEntryExpiresFromNow(val, ttl, t) ==
    [Data      |-> val,
     ExpiresAt |-> t + DurationSeconds(ttl.Stale),
     StaleAt   |-> t + DurationSeconds(ttl.Fresh),
     CreatedAt |-> t]
NewEntry(val, ttl, t) ==
    [Data      |-> val,
     ExpiresAt |-> t + DurationSeconds(ttl.Fresh) + DurationSeconds(ttl.Stale),
     StaleAt   |-> t + DurationSeconds(ttl.Fresh),
     CreatedAt |-> t]

\* result of one backend call: the key's slot afterwards, what is returned,
\* what is reported to logger and metrics, and whether a payload was stored
Res(s, f, e, ev, st) == [slot |-> s, found |-> f, entry |-> e, ev |-> ev, stored |-> st]

\* ------------------------------------------- in-process backend (BigCache)
\* BigCache.Get on the key's slot, clock read t
BigCacheGetFreshOnly(slot, t) ==
    IF ~slot.present THEN Res(slot, FALSE, NilEntry, << >>, FALSE)
    ELSE IF UnmarshalFails(slot.payload)
         THEN Res(Absent, FALSE, NilEntry, <<"warn", "metric:l1:decode">>, FALSE)
    ELSE IF IsExpired(Unmarshal(slot.payload), t)
         THEN Res(Absent, FALSE, NilEntry, << >>, FALSE)
    ELSE IF ~IsFresh(Unmarshal(slot.payload), t)
         THEN Res(slot, FALSE, NilEntry, << >>, FALSE)
    ELSE Res(slot, TRUE, Unmarshal(slot.payload), << >>, FALSE)
BigCacheGetKeepsCorrupt(slot, t) ==
    IF ~slot.present THEN Res(slot, FALSE, NilEntry, << >>, FALSE)
    ELSE IF UnmarshalFails(slot.payload)
         THEN Res(slot, FALSE, NilEntry, <<"warn", "metric:l1:decode">>, FALSE)
    ELSE IF IsExpired(Unmarshal(slot.payload), t)
         THEN Res(Absent, FALSE, NilEntry, << >>, FALSE)
    ELSE Res(slot, TRUE, Unmarshal(slot.payload), << >>, FALSE)
BigCacheGet(slot, t) ==
    IF ~slot.present THEN Res(slot, FALSE, NilEntry, << >>, FALSE)
    ELSE IF UnmarshalFails(slot.payload)
         THEN Res(Absent, FALSE, NilEntry, <<"warn", "metric:l1:decode">>, FALSE)
    ELSE IF IsExpired(Unmarshal(slot.payload), t)
         THEN Res(Absent, FALSE, NilEntry, << >>, FALSE)
    ELSE Res(slot, TRUE, Unmarshal(slot.payload), << >>, FALSE)

\* BigCache.GetStale: the same reads and deletes, nothing reported on a decode error
BigCacheGetStaleNoPurge(slot, t) ==
    IF ~slot.present THEN Res(slot, FALSE, NilEntry, << >>, FALSE)
    ELSE IF UnmarshalFails(slot.payload)
         THEN Res(Absent, FALSE, NilEntry, << >>, FALSE)
    ELSE IF IsExpired(Unmarshal(slot.payload), t)
         THEN Res(slot, FALSE, NilEntry, << >>, FALSE)
    ELSE Res(slot, TRUE, Unmarshal(slot.payload), << >>, FALSE)
BigCacheGetStale(slot, t) ==
    IF ~slot.present THEN Res(slot, FALSE, NilEntry, << >>, FALSE)
    ELSE IF UnmarshalFails(slot.payload)
         THEN Res(Absent, FALSE, NilEntry, << >>, FALSE)
    ELSE IF IsExpired(Unmarshal(slot.payload), t)
         THEN Res(Absent, FALSE, NilEntry, << >>, FALSE)
    ELSE Res(slot, TRUE, Unmarshal(slot.payload), << >>, FALSE)

\* BigCache.Set, clock read t.  json.Marshal of a CacheEntry cannot fail and
\* the library rejects a write only for its size, so the size guard is the
\* one way a write is skipped.
BigCacheSetNoSizeGuard(slot, val, ttl, t) ==
    Res(Slot(Marshal(NewEntry(val, ttl, t)), NoExpiry), FALSE, NilEntry, << >>, TRUE)
BigCacheSet(slot, val, ttl, t) ==
    LET data == Marshal(NewEntry(val, ttl, t))
    IN  IF PayloadLen(data) > MaxEntrySize
        THEN Res(slot, FALSE, NilEntry, <<"warn", "metric:l1:entry_too_large">>, FALSE)
        ELSE Res(Slot(data, NoExpiry), FALSE, NilEntry, << >>, TRUE)

\* BigCache.Delete
BigCacheDelete(slot) == Res(Absent, FALSE, NilEntry, << >>, FALSE)

\* ------------------------------------------------ networked backend (KeyDB)
\* KeyDBCache.Get, clock read t.  netOk: the GET command reaches the store;
\* delOk: the DEL command issued on an expired or corrupted payload reaches
\* it (its result is discarded by the code).
KeyDBGet(slot, t, netOk, delOk) ==
    IF ~netOk THEN Res(slot, FALSE, NilEntry, <<"warn">>, FALSE)
    ELSE IF ~slot.present THEN Res(slot, FALSE, NilEntry, << >>, FALSE)
    ELSE IF UnmarshalFails(slot.payload)
         THEN Res(IF delOk THEN Absent ELSE slot, FALSE, NilEntry,
                  <<"error", "metric:l2:decode">>, FALSE)
    ELSE IF IsExpired(Unmarshal(slot.payload), t)
         THEN Res(IF delOk THEN Absent ELSE slot, FALSE, NilEntry, << >>, FALSE)
    ELSE Res(slot, TRUE, Unmarshal(slot.payload), << >>, FALSE)

\* KeyDBCache.GetStale: as Get, without the decode metric
KeyDBGetStaleNoExpiryCheck(slot, t, netOk, delOk) ==
    IF ~netOk THEN Res(slot, FALSE, NilEntry, <<"warn">>, FALSE)
    ELSE IF ~slot.present THEN Res(slot, FALSE, NilEntry, << >>, FALSE)
    ELSE IF UnmarshalFails(slot.payload)
         THEN Res(IF delOk THEN Absent ELSE slot, FALSE, NilEntry, <<"error">>, FALSE)
    ELSE Res(slot, TRUE, Unmarshal(slot.payload), << >>, FALSE)
KeyDBGetStale(slot, t, netOk, delOk) ==
    IF ~netOk THEN Res(slot, FALSE, NilEntry, <<"warn">>, FALSE)
    ELSE IF ~slot.present THEN Res(slot, FALSE, NilEntry, << >>, FALSE)
    ELSE IF UnmarshalFails(slot.payload)
         THEN Res(IF delOk THEN Absent ELSE slot, FALSE, NilEntry, <<"error">>, FALSE)
    ELSE IF IsExpired(Unmarshal(slot.payload), t)
         THEN Res(IF delOk THEN Absent ELSE slot, FALSE, NilEntry, << >>, FALSE)
    ELSE Res(slot, TRUE, Unmarshal(slot.payload), << >>, FALSE)

\* the store's own expiration for a SET with the given expiration: none for
\* zero, else the second in which the expiration falls
NativeExpiry(totalTTL, t) ==
    IF totalTTL = 0 THEN NoExpiry ELSE t + totalTTL \div Second

\* KeyDBCache.Set, clock read t; netOk: the SET command reaches the store
KeyDBSet(slot, val, ttl, t, netOk) ==
    LET data == Marshal(NewEntry(val, ttl, t))
        totalTTL == ttl.Fresh + ttl.Stale
    IN  IF ~netOk
        THEN Res(slot, FALSE, NilEntry, <<"warn", "metric:l2:redis">>, FALSE)
        ELSE Res(Slot(data, NativeExpiry(totalTTL, t)), FALSE, NilEntry, << >>, TRUE)

\* KeyDBCache.Delete
KeyDBDelete(slot, netOk) ==
    IF ~netOk THEN Res(slot, FALSE, NilEntry, <<"warn">>, FALSE)
    ELSE Res(Absent, FALSE, NilEntry, << >>, FALSE)

\* ----------------------------------------------- the cache.Cache interface
\* c.Get / c.GetStale / c.Set / c.Delete on a tier of the given kind
CacheGet(kind, slot, t, netOk, delOk) ==
    IF kind = "l1" THEN BigCacheGet(slot, t) ELSE KeyDBGet(slot, t, netOk, delOk)

CacheGetStale(kind, slot, t, netOk, delOk) ==
    IF kind = "l1" THEN BigCacheGetStale(slot, t) ELSE KeyDBGetStale(slot, t, netOk, delOk)

CacheSet(kind, slot, val, ttl, t, netOk) ==
    IF kind = "l1" THEN BigCacheSet(slot, val, ttl, t) ELSE KeyDBSet(slot, val, ttl, t, netOk)

CacheDelete(kind, slot, netOk) ==
    IF kind = "l1" THEN BigCacheDelete(slot) ELSE KeyDBDelete(slot, netOk)

\* the inputs of a backend call that the kind of the tier leaves open
NetChoices(kind) == IF kind = "l1" THEN {TRUE} ELSE BOOLEAN

\* ------------------------------------------------------------------ state
VARIABLES
    now,                \* the wall clock, unix seconds
    caches,             \* MultiCache.caches: the kinds of the tiers, in order
    enablePropagation,  \* MultiCache.enablePropagation
    store,              \* store[i][k]: what tier i holds under key k
    op,                 \* the orchestrator call in progress
    last,               \* the most recent direct backend call and what it returned
    wrote,              \* wrote[i][k]: the latest direct Set of k on tier i
    held,               \* an entry a caller holds, and what its methods last returned
    peer,               \* a call of a second goroutine, running beside the one in op
    sched,              \* a scheduler.Scheduler, its worker goroutines and its callers
    keyman,             \* an apikeys.APIKeyManager and the calls made with its keys
    limiters,           \* a ratelimit.RateLimiterManager and its callers
    http,               \* an httpclient.HTTPClientWithRetries and its ExecuteRequest call
    verify              \* the auth handlers' token usage and the requests being verified

\* the state of the tiered cache, and the state of the other packages
cacheVars == <<now, caches, enablePropagation, store, op, last, wrote, held, peer>>
services == <<sched, keyman, limiters, http, verify>>
vars == <<cacheVars, services>>

N == Len(caches)
Tiers == 0..(N - 1)
KindOf(i) == caches[i + 1]

\* models.CacheResult
MissResult == [Entry |-> NilEntry, Found |-> FALSE, Level |-> CacheLevelMiss]
HitResult(entry, i) == [Entry |-> entry, Found |-> TRUE, Level |-> CacheLevelFromIndex(i)]

NoTTL == [Fresh |-> 0, Stale |-> 0]

IdleOp ==
    [kind |-> "idle", pc |-> "idle", key |-> "", i |-> 0, j |-> 0,
     entry |-> NilEntry, rem |-> NoTTL, remAt |-> 0, val |-> "", ttl |-> NoTTL,
     reads |-> << >>, sets |-> << >>, dels |-> << >>, warns |-> 0,
     result |-> MissResult]

NoCall ==
    [kind |-> "none", tier |-> 0, key |-> "", at |-> 0, pre |-> Absent,
     netOk |-> TRUE, delOk |-> TRUE,
     res |-> Res(Absent, FALSE, NilEntry, << >>, FALSE)]

Call(kind, tier, key, pre, netOk, delOk, res) ==
    [kind |-> kind, tier |-> tier, key |-> key, at |-> now, pre |-> pre,
     netOk |-> netOk, delOk |-> delOk, res |-> res]

\* the latest Set of a key on record: none since the last Delete (NoWrite),
\* one the backend stored (Write), or one it skipped or failed (Skipped)
NoWrite == [ok |-> FALSE, val |-> "", ttl |-> NoTTL, at |-> 0]
Write(val, ttl) == [ok |-> TRUE, val |-> val, ttl |-> ttl, at |-> now]
Skipped(val) == [ok |-> FALSE, val |-> val, ttl |-> NoTTL, at |-> 0]

\* no entry held, and an entry held whose methods were not called yet
NoneHeld ==
    [entry |-> NilEntry, inspected |-> FALSE, at |-> 0,
     fresh |-> FALSE, expired |-> FALSE, rem |-> NoTTL]
Holding(ce) == [NoneHeld EXCEPT !.entry = ce]

\* no second call, and the fields of one: a Set or Delete of the orchestrator
\* (the tier it is at), or a backend read (the tier, and the slot it read)
NoPeer ==
    [kind |-> "idle", pc |-> "idle", key |-> "", i |-> 0, val |-> "",
     ttl |-> NoTTL, seen |-> Absent, stored |-> TRUE, found |-> FALSE]

\* ------------------------------------------------- scheduler.Scheduler
\* goroutines that call Start, Stop and IsRunning on one scheduler
Callers == {"c1", "c2"}
Workers == 1..MaxWorkers

\* scheduler.New, with no caller inside a method and no worker started.
\* mu: "free" or the caller holding s.mu; cancel: the worker whose context
\* s.cancel cancels; wg: the WaitGroup counter; worker[w]: "none", "select"
\* (waiting in the select), "task" (inside s.task()) or "exited";
\* done[w]: the worker's context is cancelled; seen[c]: what IsRunning last
\* returned to c; ignored: a Start returned at the running check
SchedNew ==
    [mu |-> "free", running |-> FALSE, cancel |-> 0, wg |-> 0, started |-> 0,
     worker |-> [w \in Workers |-> "none"], done |-> [w \in Workers |-> FALSE],
     pc |-> [c \in Callers |-> "idle"], seen |-> [c \in Callers |-> "none"],
     runs |-> 0, ignored |-> FALSE]

\* ------------------------------------------------ apikeys.APIKeyManager
\* m.keyTypes, ordered by priority
KeyTypes == <<"T1", "T2">>

\* what provider.GetKeys returns per type: a type with several keys and one
\* with a single key, a type that has the empty key next to another, and a
\* type without keys
Providers ==
    { [T1 |-> <<"a", "b">>, T2 |-> <<"c">>],
      [T1 |-> <<"a">>, T2 |-> <<"", "c">>],
      [T1 |-> << >>, T2 |-> <<"a", "b", "c">>] }
AllKeys == {"", "a", "b", "c"}

\* no entry in m.lastFailed
NeverFailed == -1

NoGet == [pc |-> "idle", ti |-> 1, ki |-> 1, keys |-> << >>]
NoTry ==
    [pc |-> "idle", list |-> << >>, n |-> 1, callback |-> FALSE, tried |-> << >>,
     failed |-> << >>, result |-> "nil", err |-> FALSE]

\* NewAPIKeyManager(provider, keyTypes, backoff).  get: the GetAvailableKeys
\* call in progress; avail: the list the last such call returned; try: the
\* TryWithKeys call in progress; lastMark: when MarkKeyAsFailed was last
\* called for a key, whatever it did
KeymanNew(provider, backoff) ==
    [provider |-> provider, lastFailed |-> [k \in AllKeys |-> NeverFailed],
     backoffTime |-> backoff, get |-> NoGet, avail |-> << >>, try |-> NoTry,
     lastMark |-> [k \in AllKeys |-> NeverFailed]]

\* --------------------------------------- ratelimit.RateLimiterManager
LimiterKeys == {"x", "y"}
\* apikeys.KeyType is an int; the configuration does not restrict its values
LimiterTypes == {1, -1, -2}
LimiterPairs == LimiterKeys \X LimiterTypes
\* the largest code point, the surrogate range and the replacement character
MaxRune == 1114111
SurrogateMin == 55296
SurrogateMax == 57343
RuneError == 65533
\* string(rune(keyType)): the code point as text, U+FFFD when keyType is
\* not a valid code point
RuneString(keyType) ==
    IF keyType < 0 \/ keyType > MaxRune \/ (keyType >= SurrogateMin /\ keyType <= SurrogateMax)
    THEN RuneError
    ELSE keyType
limiterMapKey(key, keyType) == <<RuneString(keyType), "|", key>>
MapKeys == {limiterMapKey(pair[1], pair[2]) : pair \in LimiterPairs}

\* a configuration: RateLimit{RateLimitPerMinute, Burst} per key type, or no
\* entry for the type
NoRateLimit == [set |-> FALSE, RateLimitPerMinute |-> 0, Burst |-> 0]
RateLimit(perMinute, burst) == [set |-> TRUE, RateLimitPerMinute |-> perMinute, Burst |-> burst]
LimiterConfigs ==
    { [t \in LimiterTypes |-> NoRateLimit],
      [t \in LimiterTypes |->
            CASE t = 1 -> RateLimit(120, 0)
              [] t = -1 -> RateLimit(60, 5)
              [] OTHER -> RateLimit(0, 3)] }
\* limits are counted in requests per minute: rate.Limit(perMinute / 60.0)
DefaultPerMinute == 30
PerMinute == 60
limitForType(config, keyType) ==
    IF config[keyType].set /\ config[keyType].RateLimitPerMinute > 0
    THEN config[keyType].RateLimitPerMinute
    ELSE DefaultPerMinute
\* defaultBurstForLimit: 1 up to one request per second, else the ceiling
defaultBurstForLimit(limit) ==
    IF limit <= PerMinute THEN 1 ELSE (limit + PerMinute - 1) \div PerMinute
burstForType(config, keyType, limit) ==
    IF config[keyType].set /\ config[keyType].Burst > 0
    THEN config[keyType].Burst
    ELSE defaultBurstForLimit(limit)
\* rate.NewLimiter(limit, burst); id tells the instances apart, 0 is nil
NoLimiter == [id |-> 0, limit |-> 0, burst |-> 0]
NewLimiter(id, limit, burst) == [id |-> id, limit |-> limit, burst |-> burst]
NoLimiterCall == [pc |-> "idle", key |-> "x", keyType |-> 1, lim |-> NoLimiter]
\* NewRateLimiterManager(config); made counts the limiters built so far;
\* given[pair] is the instance handed out for the pair since the last
\* SetConfig, a call counting from its lookup under the lock
LimitersNew(config) ==
    [config |-> config,
     keyToLimiter |-> [mk \in MapKeys |-> NoLimiter],
     made |-> 0,
     call |-> [c \in Callers |-> NoLimiterCall],
     given |-> [pair \in LimiterPairs |-> 0]]

\* ------------------------------------ httpclient.HTTPClientWithRetries
\* what Client.Do and the reading of the body can yield
NetworkError == [err |-> TRUE, status |-> 0, body |-> FALSE]
Response(status, body) == [err |-> FALSE, status |-> status, body |-> body]
Statuses == {200, 404, 414, 429, 500, 502, 503, 504}
Outcomes ==
    {NetworkError, Response(200, FALSE)} \cup {Response(status, TRUE) : status \in Statuses}
NoResult == [resp |-> FALSE, err |-> FALSE]
\* NewHTTPClientWithRetries(opts, handler, rateLimiter): handler and limiter
\* tell whether a status handler and a rate limiter are there
HTTPNew(maxRetries, baseBackoff, handler, limiter) ==
    [MaxRetries |-> maxRetries, BaseBackoff |-> baseBackoff,
     handler |-> handler, limiter |-> limiter,
     pc |-> "idle", attempt |-> 0, events |-> << >>, outcomes |-> << >>,
     waitFailed |-> FALSE, slept |-> 0, result |-> NoResult]

\* ------------------------------------------------ auth handlers.Handlers
Clients == {"r1", "r2", "r3"}
TokenIDs == {"t1", "t2"}
\* what a request carries: no token, a token jwt.Verify rejects, a valid
\* token without ID, a valid token with an ID
Tokens == {"missing", "invalid", "noid"} \cup TokenIDs
NoRequest == [pc |-> "idle", token |-> "missing", currentUsage |-> 0, late |-> FALSE, status |-> 0]
\* handlers.New(cfg); ok[id] counts the 200 answers given for a token ID
HandlersNew(requestsPerToken) ==
    [RequestsPerToken |-> requestsPerToken,
     tokenUsage |-> [id \in TokenIDs |-> 0],
     tokenMutex |-> "free",
     req |-> [c \in Clients |-> NoRequest],
     ok |-> [id \in TokenIDs |-> 0]]

\* the packages next to the cache, as constructed
OthersNew ==
    /\ limiters = LimitersNew([t \in LimiterTypes |-> NoRateLimit])
    /\ http = HTTPNew(0, 0, FALSE, FALSE)
    /\ verify = HandlersNew(1)
ServicesNew ==
    /\ sched = SchedNew
    /\ keyman = KeymanNew([T1 |-> << >>, T2 |-> << >>], 1)
    /\ OthersNew

\* a cache nobody uses
CacheUnused ==
    /\ now = 0
    /\ caches = << >>
    /\ enablePropagation = FALSE
    /\ store = << >>
    /\ op = IdleOp
    /\ last = NoCall
    /\ wrote = << >>
    /\ held = NoneHeld
    /\ peer = NoPeer

\* s.mu.Lock() at the top of Start, Stop or IsRunning
SchedLock(c, method) ==
    /\ sched.pc[c] = "idle"
    /\ sched.mu = "free"
    /\ sched' = [sched EXCEPT !.mu = c, !.pc[c] = method]
    /\ UNCHANGED <<cacheVars, keyman, limiters, http, verify>>

SchedulerStart(c) == sched.started < MaxWorkers /\ SchedLock(c, "start")
SchedulerStop(c) == SchedLock(c, "stop")
SchedulerIsRunning(c) == SchedLock(c, "isRunning")

\* Start under the lock: return if running, else make the context, set
\* running, wg.Add(1), start the worker; the deferred Unlock
StartBodyNoCheck(c) ==
    /\ sched.pc[c] = "start"
    /\ LET w == sched.started + 1
       IN  sched' = [sched EXCEPT !.cancel = w, !.running = TRUE, !.wg = sched.wg + 1,
                                  !.started = w, !.worker[w] = "select",
                                  !.mu = "free", !.pc[c] = "idle"]
    /\ UNCHANGED <<cacheVars, keyman, limiters, http, verify>>
StartBody(c) ==
    /\ sched.pc[c] = "start"
    /\ IF sched.running
       THEN sched' = [sched EXCEPT !.ignored = TRUE, !.mu = "free", !.pc[c] = "idle"]
       ELSE LET w == sched.started + 1
            IN  sched' = [sched EXCEPT !.cancel = w, !.running = TRUE, !.wg = sched.wg + 1,
                                       !.started = w, !.worker[w] = "select",
                                       !.mu = "free", !.pc[c] = "idle"]
    /\ UNCHANGED <<cacheVars, keyman, limiters, http, verify>>

\* Stop under the lock: return if not running, else s.cancel() and go on
\* to s.wg.Wait()
StopBody(c) ==
    /\ sched.pc[c] = "stop"
    /\ IF ~sched.running
       THEN sched' = [sched EXCEPT !.mu = "free", !.pc[c] = "idle"]
       ELSE sched' = [sched EXCEPT !.done[sched.cancel] = TRUE, !.pc[c] = "wait"]
    /\ UNCHANGED <<cacheVars, keyman, limiters, http, verify>>

\* s.wg.Wait() returns, running = false, the deferred Unlock
StopWaitNoWait(c) ==
    /\ sched.pc[c] = "wait"
    /\ sched' = [sched EXCEPT !.running = FALSE, !.mu = "free", !.pc[c] = "idle"]
    /\ UNCHANGED <<cacheVars, keyman, limiters, http, verify>>
StopWait(c) ==
    /\ sched.pc[c] = "wait"
    /\ sched.wg = 0
    /\ sched' = [sched EXCEPT !.running = FALSE, !.mu = "free", !.pc[c] = "idle"]
    /\ UNCHANGED <<cacheVars, keyman, limiters, http, verify>>

\* IsRunning under the lock: return s.running
IsRunningBody(c) ==
    /\ sched.pc[c] = "isRunning"
    /\ sched' = [sched EXCEPT !.seen[c] = IF sched.running THEN "true" ELSE "false",
                             !.mu = "free", !.pc[c] = "idle"]
    /\ UNCHANGED <<cacheVars, keyman, limiters, http, verify>>

\* the worker's select takes the ticker case and calls s.task(); select
\* may take it also when the context is already cancelled
WorkerTick(w) ==
    /\ sched.worker[w] = "select"
    /\ sched.runs < MaxRuns
    /\ sched' = [sched EXCEPT !.worker[w] = "task"]
    /\ UNCHANGED <<cacheVars, keyman, limiters, http, verify>>

\* s.task() returns
TaskDone(w) ==
    /\ sched.worker[w] = "task"
    /\ sched' = [sched EXCEPT !.worker[w] = "select", !.runs = sched.runs + 1]
    /\ UNCHANGED <<cacheVars, keyman, limiters, http, verify>>

\* the worker's select takes ctx.Done(): return, and the deferred wg.Done()
WorkerExit(w) ==
    /\ sched.worker[w] = "select"
    /\ sched.done[w]
    /\ sched' = [sched EXCEPT !.worker[w] = "exited", !.wg = sched.wg - 1]
    /\ UNCHANGED <<cacheVars, keyman, limiters, http, verify>>

InitScheduler == CacheUnused /\ ServicesNew

NextScheduler ==
    \/ \E c \in Callers : SchedulerStart(c)
    \/ \E c \in Callers : StartBody(c)
    \/ \E c \in Callers : SchedulerStop(c)
    \/ \E c \in Callers : StopBody(c)
    \/ \E c \in Callers : StopWait(c)
    \/ \E c \in Callers : SchedulerIsRunning(c)
    \/ \E c \in Callers : IsRunningBody(c)
    \/ \E w \in Workers : WorkerTick(w)
    \/ \E w \in Workers : TaskDone(w)
    \/ \E w \in Workers : WorkerExit(w)

\* one scheduler, called from two goroutines
SpecScheduler == InitScheduler /\ [][NextScheduler]_vars

\* isKeyInBackoff at clock value t: time.Since(lastFailTime) < m.backoffTime
IsKeyInBackoffInclusive(key, t) ==
    IF key = "" THEN FALSE
    ELSE IF keyman.lastFailed[key] # NeverFailed
         THEN t - keyman.lastFailed[key] <= keyman.backoffTime
    ELSE FALSE
IsKeyInBackoff(key, t) ==
    IF key = "" THEN FALSE
    ELSE IF keyman.lastFailed[key] # NeverFailed
         THEN t - keyman.lastFailed[key] < keyman.backoffTime
    ELSE FALSE

\* the effect of MarkKeyAsFailed(key) on a manager km
Marked(km, key) ==
    IF key = "" THEN [km EXCEPT !.lastMark[key] = now]
    ELSE [km EXCEPT !.lastFailed[key] = now, !.lastMark[key] = now]

\* MarkKeyAsFailed(key), called by any goroutine
MarkKeyAsFailed(key) ==
    /\ keyman' = Marked(keyman, key)
    /\ UNCHANGED <<cacheVars, sched, limiters, http, verify>>

\* GetAvailableKeys: entry
GetAvailableKeys ==
    /\ keyman.get.pc = "idle"
    /\ keyman.try.pc = "idle"
    /\ keyman' = [keyman EXCEPT !.get = [NoGet EXCEPT !.pc = "type"]]
    /\ UNCHANGED <<cacheVars, sched, limiters, http, verify>>

\* GetAvailableKeys, the loop over the key types: provider.GetKeys(keyType),
\* a single key is appended as it is, several keys are checked one by one
NextKeyType ==
    /\ keyman.get.pc = "type"
    /\ LET g == keyman.get
           keys == IF g.ti <= Len(KeyTypes) THEN keyman.provider[KeyTypes[g.ti]] ELSE << >>
       IN  keyman' = [keyman EXCEPT !.get =
                IF g.ti > Len(KeyTypes) THEN [g EXCEPT !.pc = "done"]
                ELSE IF Len(keys) = 1
                     THEN [g EXCEPT !.keys = Append(g.keys, [Key |-> keys[1], Type |-> KeyTypes[g.ti]]),
                                    !.ti = g.ti + 1]
                ELSE IF Len(keys) > 1 THEN [g EXCEPT !.pc = "key", !.ki = 1]
                ELSE [g EXCEPT !.ti = g.ti + 1]]
    /\ UNCHANGED <<cacheVars, sched, limiters, http, verify>>

\* GetAvailableKeys, the loop over the keys of one type: one isKeyInBackoff
\* call under the read lock
CheckKey ==
    /\ keyman.get.pc = "key"
    /\ LET g == keyman.get
           keys == keyman.provider[KeyTypes[g.ti]]
           key == keys[g.ki]
           kept == IF IsKeyInBackoff(key, now) THEN g.keys
                   ELSE Append(g.keys, [Key |-> key, Type |-> KeyTypes[g.ti]])
       IN  keyman' = [keyman EXCEPT !.get =
                IF g.ki < Len(keys) THEN [g EXCEPT !.keys = kept, !.ki = g.ki + 1]
                ELSE [g EXCEPT !.keys = kept, !.pc = "type", !.ti = g.ti + 1, !.ki = 1]]
    /\ UNCHANGED <<cacheVars, sched, limiters, http, verify>>

\* GetAvailableKeys returns availableKeys
ReturnKeys ==
    /\ keyman.get.pc = "done"
    /\ keyman' = [keyman EXCEPT !.avail = keyman.get.keys, !.get = NoGet]
    /\ UNCHANGED <<cacheVars, sched, limiters, http, verify>>

\* TryWithKeys(availableKeys, logPrefix, executor, onFailed): entry, with
\* the list a GetAvailableKeys call returned and with onFailed either nil
\* or CreateFailCallback(manager)
TryWithKeys(callback) ==
    /\ keyman.try.pc = "idle"
    /\ keyman.get.pc = "idle"
    /\ keyman' = [keyman EXCEPT !.try =
            [NoTry EXCEPT !.pc = "loop", !.list = keyman.avail, !.callback = callback]]
    /\ UNCHANGED <<cacheVars, sched, limiters, http, verify>>

\* TryWithKeys, one iteration: the executor is called with the next key and
\* returns (result, success, err); after the last key the loop is left
TryKeyNoStop(success, err) ==
    /\ keyman.try.pc = "loop"
    /\ keyman.try.n <= Len(keyman.try.list)
    /\ LET t == keyman.try
           apiKey == t.list[t.n]
           t1 == [t EXCEPT !.tried = Append(t.tried, [key |-> apiKey.Key, success |-> success,
                                                      err |-> err]),
                           !.n = t.n + 1]
       IN  IF err /\ ~success
           THEN keyman' = [(IF t.callback /\ apiKey.Key # "" THEN Marked(keyman, apiKey.Key)
                            ELSE keyman) EXCEPT
                            !.try = [t1 EXCEPT !.failed = IF t.callback
                                                          THEN Append(t.failed, apiKey.Key)
                                                          ELSE t.failed]]
           ELSE keyman' = [keyman EXCEPT !.try = t1]
    /\ UNCHANGED <<cacheVars, sched, limiters, http, verify>>
TryKey(success, err) ==
    /\ keyman.try.pc = "loop"
    /\ keyman.try.n <= Len(keyman.try.list)
    /\ LET t == keyman.try
           apiKey == t.list[t.n]
           t1 == [t EXCEPT !.tried = Append(t.tried, [key |-> apiKey.Key, success |-> success,
                                                      err |-> err]),
                           !.n = t.n + 1]
       IN  IF success
           THEN keyman' = [keyman EXCEPT !.try = [t1 EXCEPT !.pc = "done", !.result = "result",
                                                            !.err = FALSE]]
           ELSE IF err
           THEN keyman' = [(IF t.callback /\ apiKey.Key # "" THEN Marked(keyman, apiKey.Key)
                            ELSE keyman) EXCEPT
                            !.try = [t1 EXCEPT !.failed = IF t.callback
                                                          THEN Append(t.failed, apiKey.Key)
                                                          ELSE t.failed]]
           ELSE keyman' = [keyman EXCEPT !.try = t1]
    /\ UNCHANGED <<cacheVars, sched, limiters, http, verify>>

\* TryWithKeys, after the loop: return nil and the "all API keys failed" error
TryFailed ==
    /\ keyman.try.pc = "loop"
    /\ keyman.try.n > Len(keyman.try.list)
    /\ keyman' = [keyman EXCEPT !.try.pc = "done", !.try.result = "nil", !.try.err = TRUE]
    /\ UNCHANGED <<cacheVars, sched, limiters, http, verify>>

\* TryWithKeys has returned to its caller
ReturnTry ==
    /\ keyman.try.pc = "done"
    /\ keyman' = [keyman EXCEPT !.try = NoTry]
    /\ UNCHANGED <<cacheVars, sched, limiters, http, verify>>

\* NewMultiCache: any tier list, propagation on or off, empty backends
Init ==
    /\ now = 0
    /\ caches \in Configs
    /\ enablePropagation \in BOOLEAN
    /\ store = [i \in 0..(Len(caches) - 1) |-> [k \in Keys |-> Absent]]
    /\ op = IdleOp
    /\ last = NoCall
    /\ wrote = [i \in 0..(Len(caches) - 1) |-> [k \in Keys |-> NoWrite]]
    /\ held = NoneHeld
    /\ peer = NoPeer
    /\ ServicesNew

\* the effect on tier i, key k of a backend call made by the orchestrator
Apply(i, k, res) ==
    /\ store' = [store EXCEPT ![i][k] = res.slot]
    /\ UNCHANGED <<last, wrote>>

\* the effect of a backend call made by a caller that holds the backend
\* itself, and what that caller gets back
Direct(kind, i, k, netOk, delOk, res) ==
    /\ store' = [store EXCEPT ![i][k] = res.slot]
    /\ last' = Call(kind, i, k, store[i][k], netOk, delOk, res)

\* --------------------------------------- RateLimiterManager, its calls
LimiterIdle == UNCHANGED <<cacheVars, sched, keyman, http, verify>>

\* SetConfig(newConfig), under the write lock: the new configuration, and
\* every limiter dropped
SetConfig(newConfig) ==
    /\ limiters' = [limiters EXCEPT !.config = newConfig,
                                    !.keyToLimiter = [mk \in MapKeys |-> NoLimiter],
                                    !.given = [pair \in LimiterPairs |-> 0]]
    /\ LimiterIdle

\* GetLimiter(key, keyType): entry
GetLimiter(c, key, keyType) ==
    /\ limiters.call[c].pc = "idle"
    /\ limiters' = [limiters EXCEPT !.call[c] =
            [NoLimiterCall EXCEPT !.pc = "rlock", !.key = key, !.keyType = keyType]]
    /\ LimiterIdle

\* GetLimiter, under the read lock: the limiter of the map key, if there
GetLimiterRead(c) ==
    /\ limiters.call[c].pc = "rlock"
    /\ LET call == limiters.call[c]
           lim == limiters.keyToLimiter[limiterMapKey(call.key, call.keyType)]
       IN  IF lim # NoLimiter
           THEN limiters' = [limiters EXCEPT !.call[c] = [call EXCEPT !.pc = "return", !.lim = lim],
                                             !.given[<<call.key, call.keyType>>] = lim.id]
           ELSE limiters' = [limiters EXCEPT !.call[c] = [call EXCEPT !.pc = "lock"]]
    /\ LimiterIdle

\* GetLimiter, under the write lock: the limiter that appeared meanwhile,
\* or a new one built from the configuration and stored
GetLimiterWrite(c) ==
    /\ limiters.call[c].pc = "lock"
    /\ LET call == limiters.call[c]
           mapKey == limiterMapKey(call.key, call.keyType)
           lim == limiters.keyToLimiter[mapKey]
           limit == limitForType(limiters.config, call.keyType)
           burst == burstForType(limiters.config, call.keyType, limit)
           limiter == NewLimiter(limiters.made + 1, limit, burst)
       IN  IF lim # NoLimiter
           THEN limiters' = [limiters EXCEPT !.call[c] = [call EXCEPT !.pc = "return", !.lim = lim],
                                             !.given[<<call.key, call.keyType>>] = lim.id]
           ELSE /\ limiters.made < MaxLimiters
                /\ limiters' = [limiters EXCEPT
                        !.call[c] = [call EXCEPT !.pc = "return", !.lim = limiter],
                        !.keyToLimiter[mapKey] = limiter,
                        !.made = limiters.made + 1,
                        !.given[<<call.key, call.keyType>>] = limiter.id]
    /\ LimiterIdle

\* GetLimiter returns
ReturnLimiter(c) ==
    /\ limiters.call[c].pc = "return"
    /\ limiters' = [limiters EXCEPT !.call[c] = [limiters.call[c] EXCEPT !.pc = "idle"]]
    /\ LimiterIdle

InitLimiters ==
    /\ CacheUnused
    /\ sched = SchedNew
    /\ keyman = KeymanNew([T1 |-> << >>, T2 |-> << >>], 1)
    /\ \E config \in LimiterConfigs : limiters = LimitersNew(config)
    /\ http = HTTPNew(0, 0, FALSE, FALSE)
    /\ verify = HandlersNew(1)

NextLimiters ==
    \/ \E config \in LimiterConfigs : SetConfig(config)
    \/ \E c \in Callers, pair \in LimiterPairs : GetLimiter(c, pair[1], pair[2])
    \/ \E c \in Callers : GetLimiterRead(c)
    \/ \E c \in Callers : GetLimiterWrite(c)
    \/ \E c \in Callers : ReturnLimiter(c)

\* one rate limiter manager, called from two goroutines
SpecLimiters == InitLimiters /\ [][NextLimiters]_vars

\* --------------------------------- HTTPClientWithRetries.ExecuteRequest
HTTPIdle == UNCHANGED <<cacheVars, sched, keyman, limiters, verify>>

\* isRetryableError(statusCode)
isRetryableError(statusCode) == statusCode \in {429, 500, 502, 503, 504}

\* the multiplier of CalculateBackoffWithJitter: uint(1) << uint(attempt-1)
Multiplier(attempt) == 2 ^ (attempt - 1)
\* the backoff before the jitter, and the jitters rand.Int63n(backoff / 2)
\* can return: none when backoff / 2 is not positive, where it panics
BackoffBase(baseBackoff, attempt) ==
    IF attempt <= 0 THEN baseBackoff ELSE baseBackoff * Multiplier(attempt)
Jitters(baseBackoff, attempt) == 0..(BackoffBase(baseBackoff, attempt) \div 2 - 1)

\* the StatusHandler gets an event, if there is a handler
Handled(events, event) == IF http.handler THEN Append(events, event) ELSE events

\* ExecuteRequest(req): entry
ExecuteRequest ==
    /\ http.pc \in {"idle", "done"}
    /\ http' = [http EXCEPT !.pc = "loop", !.attempt = 0, !.events = << >>,
                            !.outcomes = << >>, !.waitFailed = FALSE, !.slept = 0,
                            !.result = NoResult]
    /\ HTTPIdle

\* the loop head with attempts left: OnRetry before every attempt but the first
NextAttempt ==
    /\ http.pc = "loop"
    /\ http.attempt < http.MaxRetries
    /\ http' = IF http.attempt > 0
               THEN [http EXCEPT !.pc = "backoff", !.events = Handled(http.events, "OnRetry")]
               ELSE [http EXCEPT !.pc = "limit"]
    /\ HTTPIdle

\* CalculateBackoffWithJitter(BaseBackoff, attempt) and the sleep
SleepBackoff ==
    /\ http.pc = "backoff"
    /\ IF Jitters(http.BaseBackoff, http.attempt) = {}
       THEN http' = [http EXCEPT !.pc = "panic"]
       ELSE \E jitter \in Jitters(http.BaseBackoff, http.attempt) :
                http' = [http EXCEPT !.pc = "limit",
                            !.slept = BackoffBase(http.BaseBackoff, http.attempt) + jitter]
    /\ HTTPIdle

\* the attempt begins: limiter.Wait, if there is a limiter; when the wait
\* fails the loop is left and the call returns its error
LimiterWait(waited) ==
    /\ http.pc = "limit"
    /\ http.limiter \/ waited
    /\ http' = IF waited
               THEN [http EXCEPT !.pc = "do", !.events = Append(http.events, "attempt")]
               ELSE [http EXCEPT !.pc = "done", !.waitFailed = TRUE,
                        !.events = Handled(Append(http.events, "attempt"), "OnRequest:error"),
                        !.result = [resp |-> FALSE, err |-> TRUE]]
    /\ HTTPIdle

\* Client.Do and processResponse, and what the loop does with the outcome
ClientDo(outcome) ==
    /\ http.pc = "do"
    /\ LET h == [http EXCEPT !.outcomes = Append(http.outcomes, outcome)]
       IN  http' =
            IF outcome.err
            THEN [h EXCEPT !.pc = "loop", !.attempt = http.attempt + 1,
                           !.events = Handled(http.events, "OnRequest:error")]
            ELSE IF outcome.status # 200 \/ ~outcome.body
            THEN IF isRetryableError(outcome.status)
                 THEN [h EXCEPT !.pc = "loop", !.attempt = http.attempt + 1,
                                !.events = Handled(http.events, "OnRequest:rate_limited")]
                 ELSE [h EXCEPT !.pc = "done",
                                !.events = Handled(http.events, "OnRequest:error"),
                                !.result = [resp |-> FALSE, err |-> TRUE]]
            ELSE [h EXCEPT !.pc = "done",
                           !.events = Handled(http.events, "OnRequest:success"),
                           !.result = [resp |-> TRUE, err |-> FALSE]]
    /\ HTTPIdle

\* the loop head with no attempt left: "all %d attempts failed"
AllAttemptsFailed ==
    /\ http.pc = "loop"
    /\ http.attempt >= http.MaxRetries
    /\ http' = [http EXCEPT !.pc = "done", !.result = [resp |-> FALSE, err |-> TRUE]]
    /\ HTTPIdle

InitHTTP ==
    /\ CacheUnused
    /\ sched = SchedNew
    /\ keyman = KeymanNew([T1 |-> << >>, T2 |-> << >>], 1)
    /\ limiters = LimitersNew([t \in LimiterTypes |-> NoRateLimit])
    /\ \E maxRetries \in 0..MaxAttempts, baseBackoff \in 0..MaxBaseBackoff,
          handler \in BOOLEAN, limiter \in BOOLEAN :
            http = HTTPNew(maxRetries, baseBackoff, handler, limiter)
    /\ verify = HandlersNew(1)

NextHTTP ==
    \/ ExecuteRequest
    \/ NextAttempt
    \/ SleepBackoff
    \/ \E waited \in BOOLEAN : LimiterWait(waited)
    \/ \E outcome \in Outcomes : ClientDo(outcome)
    \/ AllAttemptsFailed

\* one client, one ExecuteRequest call after another
SpecHTTP == InitHTTP /\ [][NextHTTP]_vars

\* ------------------------------------------------- Handlers.VerifyHandler
VerifyIdle == UNCHANGED <<cacheVars, sched, keyman, limiters, http>>

\* VerifyHandler(w, r): the request arrives with its token
VerifyHandler(c, token) ==
    /\ verify.req[c].pc = "idle"
    /\ verify' = [verify EXCEPT !.req[c] =
            [NoRequest EXCEPT !.pc = "verify", !.token = token,
                              !.late = (token \in TokenIDs /\
                                        verify.ok[token] >= verify.RequestsPerToken)]]
    /\ VerifyIdle

\* the token is looked for and verified: 401 without a valid token, 200
\* for a valid token without ID, else on to the usage count
VerifyToken(c) ==
    /\ verify.req[c].pc = "verify"
    /\ LET r == verify.req[c]
       IN  verify' = [verify EXCEPT !.req[c] =
                CASE r.token \in {"missing", "invalid"} -> [r EXCEPT !.pc = "idle", !.status = 401]
                  [] r.token = "noid" -> [r EXCEPT !.pc = "idle", !.status = 200]
                  [] OTHER -> [r EXCEPT !.pc = "lock"]]
    /\ VerifyIdle

\* h.tokenMutex.Lock()
TokenLockNoMutex(c) ==
    /\ verify.req[c].pc = "lock"
    /\ verify' = [verify EXCEPT !.tokenMutex = c, !.req[c].pc = "read"]
    /\ VerifyIdle
TokenLock(c) ==
    /\ verify.req[c].pc = "lock"
    /\ verify.tokenMutex = "free"
    /\ verify' = [verify EXCEPT !.tokenMutex = c, !.req[c].pc = "read"]
    /\ VerifyIdle

\* currentUsage := h.tokenUsage[tokenID], and the unlock of a used-up token
ReadUsage(c) ==
    /\ verify.req[c].pc = "read"
    /\ LET currentUsage == verify.tokenUsage[verify.req[c].token]
       IN  IF currentUsage >= verify.RequestsPerToken
           THEN verify' = [verify EXCEPT !.tokenMutex = "free", !.req[c].pc = "limited",
                                         !.req[c].currentUsage = currentUsage]
           ELSE verify' = [verify EXCEPT !.req[c].pc = "write",
                                         !.req[c].currentUsage = currentUsage]
    /\ VerifyIdle

\* h.tokenUsage[tokenID] = currentUsage + 1, and the unlock
WriteUsage(c) ==
    /\ verify.req[c].pc = "write"
    /\ verify' = [verify EXCEPT !.tokenUsage[verify.req[c].token] = verify.req[c].currentUsage + 1,
                                !.tokenMutex = "free", !.req[c].pc = "success"]
    /\ VerifyIdle

\* w.WriteHeader: 429 for a used-up token, else 200
WriteHeader(c) ==
    /\ verify.req[c].pc \in {"limited", "success"}
    /\ LET r == verify.req[c]
       IN  IF r.pc = "limited"
           THEN verify' = [verify EXCEPT !.req[c] = [r EXCEPT !.pc = "idle", !.status = 429]]
           ELSE verify' = [verify EXCEPT !.req[c] = [r EXCEPT !.pc = "idle", !.status = 200],
                                         !.ok[r.token] = verify.ok[r.token] + 1]
    /\ VerifyIdle

InitVerify ==
    /\ CacheUnused
    /\ sched = SchedNew
    /\ keyman = KeymanNew([T1 |-> << >>, T2 |-> << >>], 1)
    /\ limiters = LimitersNew([t \in LimiterTypes |-> NoRateLimit])
    /\ http = HTTPNew(0, 0, FALSE, FALSE)
    /\ \E requestsPerToken \in 1..MaxRequestsPerToken : verify = HandlersNew(requestsPerToken)

NextVerify ==
    \/ \E c \in Clients, token \in Tokens : VerifyHandler(c, token)
    \/ \E c \in Clients : VerifyToken(c)
    \/ \E c \in Clients : TokenLock(c)
    \/ \E c \in Clients : ReadUsage(c)
    \/ \E c \in Clients : WriteUsage(c)
    \/ \E c \in Clients : WriteHeader(c)

\* the verify endpoint, three requests at a time
SpecVerify == InitVerify /\ [][NextVerify]_vars

\* ------------------------------------------------------------ orchestrator
\* MultiCache.GetWithLevel / GetStaleWithLevel: entry, with the empty-list check
\* (only GetWithLevel logs the warning)
StartReadEmptyHit(kind, k) ==
    /\ op.kind = "idle"
    /\ op' = IF N = 0
             THEN [IdleOp EXCEPT !.kind = kind, !.key = k, !.pc = "done",
                                 !.result = HitResult(NilEntry, 0)]
             ELSE [IdleOp EXCEPT !.kind = kind, !.key = k, !.pc = "read"]
    /\ UNCHANGED <<now, caches, enablePropagation, store, last, wrote, held, peer, services>>
StartRead(kind, k) ==
    /\ op.kind = "idle"
    /\ op' = IF N = 0
             THEN [IdleOp EXCEPT !.kind = kind, !.key = k, !.pc = "done",
                                 !.warns = IF kind = "get" THEN 1 ELSE 0]
             ELSE [IdleOp EXCEPT !.kind = kind, !.key = k, !.pc = "read"]
    /\ UNCHANGED <<now, caches, enablePropagation, store, last, wrote, held, peer, services>>

GetWithLevel(k) == StartRead("get", k)
GetStaleWithLevel(k) == StartRead("getStale", k)

\* where the loop goes after tier i reported not-found
NextReadStopsEarly(o) == [o EXCEPT !.pc = "done", !.result = MissResult]
NextReadFromStart(o) ==
    IF o.i + 1 < N THEN [o EXCEPT !.i = o.i + 1]
    ELSE [o EXCEPT !.i = 0]
NextRead(o) ==
    IF o.i + 1 < N THEN [o EXCEPT !.i = o.i + 1]
    ELSE [o EXCEPT !.pc = "done", !.result = MissResult]

\* where the loop goes after tier i reported found
AfterHitNoStop(o, entry) ==
    IF o.i + 1 < N THEN [o EXCEPT !.i = o.i + 1, !.result = HitResult(entry, o.i)]
    ELSE [o EXCEPT !.pc = "done", !.entry = entry, !.result = HitResult(entry, o.i)]
AfterHitAlwaysPropagate(o, entry) ==
    IF o.i > 0
    THEN [o EXCEPT !.pc = "propagate", !.entry = entry, !.result = HitResult(entry, o.i)]
    ELSE [o EXCEPT !.pc = "done", !.entry = entry, !.result = HitResult(entry, o.i)]
AfterHit(o, entry) ==
    IF o.i > 0 /\ enablePropagation
    THEN [o EXCEPT !.pc = "propagate", !.entry = entry, !.result = HitResult(entry, o.i)]
    ELSE [o EXCEPT !.pc = "done", !.entry = entry, !.result = HitResult(entry, o.i)]

\* one iteration of the read loop: c.Get(key) or c.GetStale(key) on tier op.i
ReadTier ==
    /\ op.pc = "read"
    /\ \E netOk \in NetChoices(KindOf(op.i)), delOk \in NetChoices(KindOf(op.i)) :
        LET slot == store[op.i][op.key]
            res == IF op.kind = "get"
                   THEN CacheGet(KindOf(op.i), slot, now, netOk, delOk)
                   ELSE CacheGetStale(KindOf(op.i), slot, now, netOk, delOk)
            o == [op EXCEPT !.reads = Append(op.reads,
                        [tier |-> op.i, found |-> res.found, entry |-> res.entry,
                         netOk |-> netOk, ev |-> res.ev,
                         corrupt |-> slot.present /\ UnmarshalFails(slot.payload),
                         purged |-> slot.present /\ ~res.slot.present])]
        IN  /\ Apply(op.i, op.key, res)
            /\ op' = IF res.found THEN AfterHit(o, res.entry) ELSE NextRead(o)
    /\ UNCHANGED <<now, caches, enablePropagation, held, peer, services>>

\* propagateToEarlierCaches, first clock read: entry == nil || entry.IsExpired()
PropagateNoExpiryCheck ==
    /\ op.pc = "propagate"
    /\ op' = IF op.entry = NilEntry
             THEN [op EXCEPT !.pc = "done"]
             ELSE [op EXCEPT !.pc = "remaining"]
    /\ UNCHANGED <<now, caches, enablePropagation, store, last, wrote, held, peer, services>>
PropagateExpired ==
    /\ op.pc = "propagate"
    /\ op' = IF op.entry = NilEntry \/ IsExpired(op.entry, now)
             THEN [op EXCEPT !.pc = "done"]
             ELSE [op EXCEPT !.pc = "remaining"]
    /\ UNCHANGED <<now, caches, enablePropagation, store, last, wrote, held, peer, services>>

\* propagateToEarlierCaches, second clock read: entry.RemainingTTL() and the
\* check for meaningful time left
PropagateRemaining ==
    /\ op.pc = "remaining"
    /\ LET remainingTTL == RemainingTTL(op.entry, now)
       IN  op' = IF remainingTTL.Fresh <= 0 /\ remainingTTL.Stale <= 0
                 THEN [op EXCEPT !.pc = "done", !.rem = remainingTTL, !.remAt = now]
                 ELSE [op EXCEPT !.pc = "promote", !.rem = remainingTTL, !.remAt = now,
                                 !.j = 0]
    /\ UNCHANGED <<now, caches, enablePropagation, store, last, wrote, held, peer, services>>

\* propagateToEarlierCaches, one iteration of the write loop:
\* mc.caches[j].Set(key, entry.Data, remainingTTL)
PromoteTierIncludesHit ==
    /\ op.pc = "promote"
    /\ \E netOk \in NetChoices(KindOf(op.j)) :
        LET res == CacheSet(KindOf(op.j), store[op.j][op.key], op.entry.Data, op.rem, now, netOk)
        IN  /\ Apply(op.j, op.key, res)
            /\ op' = [op EXCEPT
                        !.sets = Append(op.sets, [tier |-> op.j, stored |-> res.stored,
                                                  entry |-> NewEntry(op.entry.Data, op.rem, now),
                                                  key |-> op.key, val |-> op.entry.Data,
                                                  ttl |-> op.rem, ev |-> res.ev]),
                        !.j = op.j + 1,
                        !.pc = IF op.j + 1 <= op.i THEN "promote" ELSE "done"]
    /\ UNCHANGED <<now, caches, enablePropagation, held, peer, services>>
PromoteTier ==
    /\ op.pc = "promote"
    /\ \E netOk \in NetChoices(KindOf(op.j)) :
        LET res == CacheSet(KindOf(op.j), store[op.j][op.key], op.entry.Data, op.rem, now, netOk)
        IN  /\ Apply(op.j, op.key, res)
            /\ op' = [op EXCEPT
                        !.sets = Append(op.sets, [tier |-> op.j, stored |-> res.stored,
                                                  entry |-> NewEntry(op.entry.Data, op.rem, now),
                                                  key |-> op.key, val |-> op.entry.Data,
                                                  ttl |-> op.rem, ev |-> res.ev]),
                        !.j = op.j + 1,
                        !.pc = IF op.j + 1 < op.i THEN "promote" ELSE "done"]
    /\ UNCHANGED <<now, caches, enablePropagation, held, peer, services>>

\* MultiCache.Set: entry, with the empty-list check
Set(k, val, ttl) ==
    /\ op.kind = "idle"
    /\ op' = IF N = 0
             THEN [IdleOp EXCEPT !.kind = "set", !.key = k, !.val = val, !.ttl = ttl,
                                 !.pc = "done", !.warns = 1]
             ELSE [IdleOp EXCEPT !.kind = "set", !.key = k, !.val = val, !.ttl = ttl,
                                 !.pc = "fanout"]
    /\ UNCHANGED <<now, caches, enablePropagation, store, last, wrote, held, peer, services>>

\* MultiCache.Set, one iteration: c.Set(key, val, ttl)
SetTierStopsOnFailure ==
    /\ op.pc = "fanout"
    /\ op.kind = "set"
    /\ \E netOk \in NetChoices(KindOf(op.i)) :
        LET res == CacheSet(KindOf(op.i), store[op.i][op.key], op.val, op.ttl, now, netOk)
        IN  /\ Apply(op.i, op.key, res)
            /\ op' = [op EXCEPT
                        !.sets = Append(op.sets, [tier |-> op.i, stored |-> res.stored,
                                                  entry |-> NewEntry(op.val, op.ttl, now),
                                                  key |-> op.key, val |-> op.val,
                                                  ttl |-> op.ttl, ev |-> res.ev]),
                        !.i = op.i + 1,
                        !.pc = IF op.i + 1 < N /\ res.stored THEN "fanout" ELSE "done"]
    /\ UNCHANGED <<now, caches, enablePropagation, held, peer, services>>
SetTier ==
    /\ op.pc = "fanout"
    /\ op.kind = "set"
    /\ \E netOk \in NetChoices(KindOf(op.i)) :
        LET res == CacheSet(KindOf(op.i), store[op.i][op.key], op.val, op.ttl, now, netOk)
        IN  /\ Apply(op.i, op.key, res)
            /\ op' = [op EXCEPT
                        !.sets = Append(op.sets, [tier |-> op.i, stored |-> res.stored,
                                                  entry |-> NewEntry(op.val, op.ttl, now),
                                                  key |-> op.key, val |-> op.val,
                                                  ttl |-> op.ttl, ev |-> res.ev]),
                        !.i = op.i + 1,
                        !.pc = IF op.i + 1 < N THEN "fanout" ELSE "done"]
    /\ UNCHANGED <<now, caches, enablePropagation, held, peer, services>>

\* MultiCache.Delete: entry, with the empty-list check
Delete(k) ==
    /\ op.kind = "idle"
    /\ op' = IF N = 0
             THEN [IdleOp EXCEPT !.kind = "delete", !.key = k, !.pc = "done", !.warns = 1]
             ELSE [IdleOp EXCEPT !.kind = "delete", !.key = k, !.pc = "fanout"]
    /\ UNCHANGED <<now, caches, enablePropagation, store, last, wrote, held, peer, services>>

\* MultiCache.Delete, one iteration: c.Delete(key)
DeleteTierStopsOnFailure ==
    /\ op.pc = "fanout"
    /\ op.kind = "delete"
    /\ \E netOk \in NetChoices(KindOf(op.i)) :
        LET res == CacheDelete(KindOf(op.i), store[op.i][op.key], netOk)
        IN  /\ Apply(op.i, op.key, res)
            /\ op' = [op EXCEPT
                        !.dels = Append(op.dels, [tier |-> op.i, key |-> op.key, netOk |-> netOk,
                                                  held |-> store[op.i][op.key].present]),
                        !.i = op.i + 1,
                        !.pc = IF op.i + 1 < N /\ netOk THEN "fanout" ELSE "done"]
    /\ UNCHANGED <<now, caches, enablePropagation, held, peer, services>>
DeleteTier ==
    /\ op.pc = "fanout"
    /\ op.kind = "delete"
    /\ \E netOk \in NetChoices(KindOf(op.i)) :
        LET res == CacheDelete(KindOf(op.i), store[op.i][op.key], netOk)
        IN  /\ Apply(op.i, op.key, res)
            /\ op' = [op EXCEPT
                        !.dels = Append(op.dels, [tier |-> op.i, key |-> op.key, netOk |-> netOk,
                                                  held |-> store[op.i][op.key].present]),
                        !.i = op.i + 1,
                        !.pc = IF op.i + 1 < N THEN "fanout" ELSE "done"]
    /\ UNCHANGED <<now, caches, enablePropagation, held, peer, services>>

\* the call returns to its caller
Return ==
    /\ op.pc = "done"
    /\ op' = IdleOp
    /\ UNCHANGED <<now, caches, enablePropagation, store, last, wrote, held, peer, services>>

\* --------------------------------------- a backend used directly by a caller
\* (the tier lists of the orchestrator share their backends with other code)
BackendGet(i, k) ==
    /\ op.kind = "idle"
    /\ \E netOk \in NetChoices(KindOf(i)), delOk \in NetChoices(KindOf(i)) :
        Direct("get", i, k, netOk, delOk,
               CacheGet(KindOf(i), store[i][k], now, netOk, delOk))
    /\ UNCHANGED <<now, caches, enablePropagation, op, wrote, held, peer, services>>

BackendGetStale(i, k) ==
    /\ op.kind = "idle"
    /\ \E netOk \in NetChoices(KindOf(i)), delOk \in NetChoices(KindOf(i)) :
        Direct("getStale", i, k, netOk, delOk,
               CacheGetStale(KindOf(i), store[i][k], now, netOk, delOk))
    /\ UNCHANGED <<now, caches, enablePropagation, op, wrote, held, peer, services>>

BackendSet(i, k, val, ttl) ==
    /\ op.kind = "idle"
    /\ \E netOk \in NetChoices(KindOf(i)) :
        LET res == CacheSet(KindOf(i), store[i][k], val, ttl, now, netOk)
        IN  /\ Direct("set", i, k, netOk, TRUE, res)
            /\ wrote' = [wrote EXCEPT ![i][k] = IF res.stored THEN Write(val, ttl) ELSE Skipped(val)]
    /\ UNCHANGED <<now, caches, enablePropagation, op, held, peer, services>>

BackendDelete(i, k) ==
    /\ op.kind = "idle"
    /\ \E netOk \in NetChoices(KindOf(i)) :
        Direct("delete", i, k, netOk, TRUE,
               CacheDelete(KindOf(i), store[i][k], netOk))
    /\ wrote' = [wrote EXCEPT ![i][k] = NoWrite]
    /\ UNCHANGED <<now, caches, enablePropagation, op, held, peer, services>>

\* another user of a shared backend stores an entry in tier i alone
PlaceEntry(i, k, val, ttl) ==
    /\ op.kind = "idle"
    /\ \E netOk \in NetChoices(KindOf(i)) :
        store' = [store EXCEPT ![i][k] =
                    CacheSet(KindOf(i), store[i][k], val, ttl, now, netOk).slot]
    /\ UNCHANGED <<now, caches, enablePropagation, op, last, wrote, held, peer, services>>

\* the bytes tier i holds under k are damaged, or written by a program that
\* does not store serialized entries
PlaceCorrupt(i, k) ==
    /\ op.kind = "idle"
    /\ store' = [store EXCEPT ![i][k] = Slot(CorruptPayload, NoExpiry)]
    /\ UNCHANGED <<now, caches, enablePropagation, op, last, wrote, held, peer, services>>

\* ------------------------------------------------------------ environment
\* what the networked store still holds at clock value t: a key is gone at
\* the latest one second after the second its expiration falls in
Survives(kind, slot, t) ==
    ~(kind = "l2" /\ slot.present /\ slot.exp # NoExpiry /\ t > slot.exp + 1)

\* the clock advances by one second
Tick ==
    /\ now < MaxTime
    /\ now' = now + 1
    /\ store' = [i \in Tiers |-> [k \in Keys |->
                    IF Survives(KindOf(i), store[i][k], now + 1) THEN store[i][k] ELSE Absent]]
    /\ UNCHANGED <<caches, enablePropagation, op, last, wrote, held, peer, services>>

\* the networked store expires a key whose expiration has been reached
StoreExpire(i, k) ==
    /\ KindOf(i) = "l2"
    /\ store[i][k].present
    /\ store[i][k].exp # NoExpiry
    /\ now >= store[i][k].exp
    /\ store' = [store EXCEPT ![i][k] = Absent]
    /\ UNCHANGED <<now, caches, enablePropagation, op, last, wrote, held, peer, services>>

Next ==
    \/ \E k \in Keys : GetWithLevel(k)
    \/ \E k \in Keys : GetStaleWithLevel(k)
    \/ ReadTier
    \/ PropagateExpired
    \/ PropagateRemaining
    \/ PromoteTier
    \/ Return
    \/ \E i \in Tiers, k \in Keys, val \in PlacedData(N), ttl \in PlacedTTLs(N) :
            PlaceEntry(i, k, val, ttl)
    \/ \E i \in Tiers, k \in Keys : PlaceCorrupt(i, k)
    \/ Tick
    \/ \E i \in Tiers, k \in Keys : StoreExpire(i, k)

\* reads through the orchestrator, over backends that are also written directly
Spec == Init /\ [][Next]_vars

NextWrite ==
    \/ \E k \in Keys, val \in SetData(N), ttl \in SetTTLs(N) : Set(k, val, ttl)
    \/ SetTier
    \/ \E k \in Keys : Delete(k)
    \/ DeleteTier
    \/ \E k \in Keys : GetWithLevel(k)
    \/ \E k \in Keys : GetStaleWithLevel(k)
    \/ ReadTier
    \/ PropagateExpired
    \/ PropagateRemaining
    \/ PromoteTier
    \/ Return
    \/ Tick
    \/ \E i \in Tiers, k \in Keys : StoreExpire(i, k)

\* every call of the orchestrator, over backends that nothing else writes
SpecWrite == Init /\ [][NextWrite]_vars

\* one backend on its own, called directly
InitBackend ==
    /\ now = 0
    /\ caches \in {<<"l1">>, <<"l2">>}
    /\ enablePropagation = FALSE
    /\ store = [i \in {0} |-> [k \in Keys |-> Absent]]
    /\ op = IdleOp
    /\ last = NoCall
    /\ wrote = [i \in {0} |-> [k \in Keys |-> NoWrite]]
    /\ held = NoneHeld
    /\ peer = NoPeer
    /\ ServicesNew

NextBackend ==
    \/ \E i \in Tiers, k \in Keys : BackendGet(i, k)
    \/ \E i \in Tiers, k \in Keys : BackendGetStale(i, k)
    \/ \E i \in Tiers, k \in Keys, val \in DataVals, ttl \in TTLs : BackendSet(i, k, val, ttl)
    \/ \E i \in Tiers, k \in Keys : BackendDelete(i, k)
    \/ Tick
    \/ \E i \in Tiers, k \in Keys : StoreExpire(i, k)

SpecBackend == InitBackend /\ [][NextBackend]_vars

\* the methods of an entry that a caller got from a backend: IsFresh,
\* IsExpired and RemainingTTL called within one second of the clock
Inspect ==
    /\ held.entry # NilEntry
    /\ held' = [held EXCEPT !.inspected = TRUE, !.at = now,
                             !.fresh = IsFresh(held.entry, now),
                             !.expired = IsExpired(held.entry, now),
                             !.rem = RemainingTTL(held.entry, now)]
    /\ UNCHANGED <<now, caches, enablePropagation, store, op, last, wrote, peer, services>>

\* a caller holds an entry that a backend Set built at some second t0
InitEntry ==
    /\ now = 0
    /\ caches = << >>
    /\ enablePropagation = FALSE
    /\ store = << >>
    /\ op = IdleOp
    /\ last = NoCall
    /\ wrote = << >>
    /\ \E val \in SmallData, ttl \in TTLs, t0 \in 0..MaxTime :
            held = Holding(NewEntry(val, ttl, t0))
    /\ peer = NoPeer
    /\ ServicesNew

NextEntry ==
    \/ Inspect
    \/ Tick

SpecEntry == InitEntry /\ [][NextEntry]_vars

\* ------------------------------------------- two goroutines on one cache
\* MultiCache.Set called by a second goroutine: entry (the tier list is not
\* empty here)
PeerSet(k, val, ttl) ==
    /\ peer.kind = "idle"
    /\ N > 0
    /\ peer' = [NoPeer EXCEPT !.kind = "set", !.pc = "fanout", !.key = k,
                               !.val = val, !.ttl = ttl]
    /\ UNCHANGED <<now, caches, enablePropagation, store, op, last, wrote, held, services>>

\* MultiCache.Set of the second goroutine, one iteration: c.Set(key, val, ttl)
PeerSetTierAllAtOnce ==
    /\ peer.pc = "fanout"
    /\ peer.kind = "set"
    /\ \E netOk \in BOOLEAN :
        /\ store' = [j \in Tiers |-> [store[j] EXCEPT ![peer.key] =
                        IF j >= peer.i
                        THEN CacheSet(KindOf(j), store[j][peer.key], peer.val, peer.ttl,
                                      now, netOk \/ KindOf(j) = "l1").slot
                        ELSE store[j][peer.key]]]
        /\ peer' = [peer EXCEPT !.i = N, !.pc = "done"]
    /\ UNCHANGED <<now, caches, enablePropagation, op, last, wrote, held, services>>
PeerSetTier ==
    /\ peer.pc = "fanout"
    /\ peer.kind = "set"
    /\ \E netOk \in NetChoices(KindOf(peer.i)) :
        LET res == CacheSet(KindOf(peer.i), store[peer.i][peer.key], peer.val, peer.ttl,
                            now, netOk)
        IN  /\ Apply(peer.i, peer.key, res)
            /\ peer' = [peer EXCEPT
                          !.stored = peer.stored /\ res.stored,
                          !.i = peer.i + 1,
                          !.pc = IF peer.i + 1 < N THEN "fanout" ELSE "done"]
    /\ UNCHANGED <<now, caches, enablePropagation, op, held, services>>

\* MultiCache.Delete called by a second goroutine: entry
PeerDelete(k) ==
    /\ peer.kind = "idle"
    /\ N > 0
    /\ peer' = [NoPeer EXCEPT !.kind = "delete", !.pc = "fanout", !.key = k]
    /\ UNCHANGED <<now, caches, enablePropagation, store, op, last, wrote, held, services>>

\* MultiCache.Delete of the second goroutine, one iteration: c.Delete(key)
PeerDeleteTier ==
    /\ peer.pc = "fanout"
    /\ peer.kind = "delete"
    /\ \E netOk \in NetChoices(KindOf(peer.i)) :
        LET res == CacheDelete(KindOf(peer.i), store[peer.i][peer.key], netOk)
        IN  /\ Apply(peer.i, peer.key, res)
            /\ peer' = [peer EXCEPT
                          !.stored = peer.stored /\ netOk,
                          !.i = peer.i + 1,
                          !.pc = IF peer.i + 1 < N THEN "fanout" ELSE "done"]
    /\ UNCHANGED <<now, caches, enablePropagation, op, held, services>>

\* the call of the second goroutine returns
PeerReturn ==
    /\ peer.pc = "done"
    /\ peer' = NoPeer
    /\ UNCHANGED <<now, caches, enablePropagation, store, op, last, wrote, held, services>>

\* a two- or three-tier cache in which some tiers hold d1, stored by an
\* earlier Set with one second of freshness and one of staleness
StoredEarlier(kind) ==
    CacheSet(kind, Absent, "d1", [Fresh |-> Second, Stale |-> Second], 0, TRUE).slot

InitRace ==
    /\ now = 0
    /\ caches \in {<<"l1", "l2">>, <<"l1", "l2", "l2">>}
    /\ enablePropagation = TRUE
    /\ \E holds \in [0..(Len(caches) - 1) -> BOOLEAN] :
            store = [i \in 0..(Len(caches) - 1) |-> [k \in Keys |->
                        IF holds[i] THEN StoredEarlier(caches[i + 1]) ELSE Absent]]
    /\ op = IdleOp
    /\ last = NoCall
    /\ wrote = [i \in 0..(Len(caches) - 1) |-> [k \in Keys |-> NoWrite]]
    /\ held = NoneHeld
    /\ peer = NoPeer
    /\ ServicesNew

\* what the second goroutine stores: a value the tiers do not hold yet
RaceTTLs == {[Fresh |-> Second, Stale |-> Second]}

NextRace ==
    \/ \E k \in Keys : GetWithLevel(k)
    \/ \E k \in Keys : GetStaleWithLevel(k)
    \/ ReadTier
    \/ PropagateExpired
    \/ PropagateRemaining
    \/ PromoteTier
    \/ Return
    \/ \E k \in Keys, ttl \in RaceTTLs : PeerSet(k, "d2", ttl)
    \/ PeerSetTier
    \/ \E k \in Keys : PeerDelete(k)
    \/ PeerDeleteTier
    \/ PeerReturn

\* a read through the orchestrator beside a Set or Delete of another goroutine
SpecRace == InitRace /\ [][NextRace]_vars

\* ---------------------------- a backend read beside a Set on the same key
\* BigCache.Get / GetStale, KeyDBCache.Get / GetStale up to the decision to
\* delete: the store is read, the payload decoded and its expiry checked
PeerRead(kind, i, k) ==
    /\ peer.kind = "idle"
    /\ \E netOk \in NetChoices(KindOf(i)) :
        LET slot == store[i][k]
        IN  peer' =
                IF ~netOk \/ ~slot.present
                THEN [NoPeer EXCEPT !.kind = kind, !.pc = "done", !.key = k, !.i = i]
                ELSE IF UnmarshalFails(slot.payload) \/ IsExpired(Unmarshal(slot.payload), now)
                THEN [NoPeer EXCEPT !.kind = kind, !.pc = "evict", !.key = k, !.i = i,
                                    !.seen = slot]
                ELSE [NoPeer EXCEPT !.kind = kind, !.pc = "done", !.key = k, !.i = i,
                                    !.seen = slot, !.found = TRUE]
    /\ UNCHANGED <<now, caches, enablePropagation, store, op, last, wrote, held, services>>

\* the read deletes the key: bc.cache.Delete(key), kc.client.Del(ctx, key)
PeerEvict ==
    /\ peer.pc = "evict"
    /\ \E delOk \in NetChoices(KindOf(peer.i)) :
        store' = [store EXCEPT ![peer.i][peer.key] =
                    IF delOk THEN Absent ELSE store[peer.i][peer.key]]
    /\ peer' = [peer EXCEPT !.pc = "done"]
    /\ UNCHANGED <<now, caches, enablePropagation, op, last, wrote, held, services>>

NextEvict ==
    \/ \E kind \in {"get", "getStale"}, i \in Tiers, k \in Keys : PeerRead(kind, i, k)
    \/ PeerEvict
    \/ PeerReturn
    \/ \E i \in Tiers, k \in Keys, val \in SmallData, ttl \in TTLs : PlaceEntry(i, k, val, ttl)
    \/ \E i \in Tiers, k \in Keys : PlaceCorrupt(i, k)
    \/ Tick
    \/ \E i \in Tiers, k \in Keys : StoreExpire(i, k)

\* one backend, read by one goroutine and written by another
SpecEvict == InitBackend /\ [][NextEvict]_vars

\* ------------------------------------- reads long after the last Set
\* the last Sets of a key: they happen in second 0, none after it
EarlySet(i, k, val, ttl) ==
    /\ now = 0
    /\ PlaceEntry(i, k, val, ttl)

\* An entry one second later, seen from a clock that stays at MaxTime: its
\* timestamps move back by one second instead. An entry whose StaleAt has
\* reached 0 expired before MaxTime (a stale window is at most MaxTTL) and
\* is left as it is: it stays expired and keeps its stale window.
Aged(ce) ==
    IF ce.StaleAt <= 0 THEN ce
    ELSE [ce EXCEPT !.ExpiresAt = @ - 1, !.StaleAt = @ - 1, !.CreatedAt = Max(@ - 1, 0)]
AgedSlot(slot) ==
    IF ~slot.present THEN slot
    ELSE Slot(IF UnmarshalFails(slot.payload) THEN slot.payload
              ELSE Marshal(Aged(Unmarshal(slot.payload))),
              IF slot.exp = NoExpiry THEN NoExpiry ELSE slot.exp - 1)

\* the clock advances by one second beyond MaxTime
TickOn ==
    /\ now = MaxTime
    /\ store' = [i \in Tiers |-> [k \in Keys |->
                    IF Survives(KindOf(i), store[i][k], now + 1)
                    THEN AgedSlot(store[i][k]) ELSE Absent]]
    /\ op' = [op EXCEPT !.entry = Aged(@), !.remAt = Max(@ - 1, 0)]
    /\ UNCHANGED <<now, caches, enablePropagation, last, wrote, held, peer, services>>

NextExpiry ==
    \/ \E i \in Tiers, k \in Keys, val \in PlacedData(N), ttl \in PlacedTTLs(N) :
            EarlySet(i, k, val, ttl)
    \/ \E k \in Keys : GetWithLevel(k)
    \/ \E k \in Keys : GetStaleWithLevel(k)
    \/ ReadTier
    \/ PropagateExpired
    \/ PropagateRemaining
    \/ PromoteTier
    \/ Return
    \/ Tick
    \/ TickOn
    \/ \E i \in Tiers, k \in Keys : StoreExpire(i, k)

\* reads without end after the last Set: time advances, and a call that has
\* started goes on to its end
SpecExpiry ==
    /\ Init
    /\ [][NextExpiry]_vars
    /\ WF_vars(Tick)
    /\ WF_vars(TickOn)
    /\ WF_vars(ReadTier)
    /\ WF_vars(PropagateExpired)
    /\ WF_vars(PropagateRemaining)
    /\ WF_vars(PromoteTier)
    /\ WF_vars(Return)

InitKeys ==
    /\ CacheUnused
    /\ sched = SchedNew
    /\ OthersNew
    /\ \E provider \in Providers, backoff \in 1..MaxBackoff :
            keyman = KeymanNew(provider, backoff)

NextKeys ==
    \/ \E key \in AllKeys : MarkKeyAsFailed(key)
    \/ GetAvailableKeys
    \/ NextKeyType
    \/ CheckKey
    \/ ReturnKeys
    \/ \E callback \in BOOLEAN : TryWithKeys(callback)
    \/ \E success \in BOOLEAN, err \in BOOLEAN : TryKey(success, err)
    \/ TryFailed
    \/ ReturnTry
    \/ Tick

\* one key manager: a caller lists its keys and runs requests over the
\* listed keys, one call at a time, while any goroutine marks keys as failed
\* and the clock advances
SpecKeys == InitKeys /\ [][NextKeys]_vars

TypeOK ==
    /\ now \in 0..MaxTime
    /\ op.kind \in {"idle", "get", "getStale", "set", "delete"}
    /\ op.pc \in {"idle", "read", "propagate", "remaining", "promote", "fanout", "done"}
    /\ enablePropagation \in BOOLEAN
    /\ caches \in Configs \cup {<<"l2">>}
    /\ DOMAIN store = Tiers

\* ------------------------------------------------------------ vocabulary
IsRead(o) == o.kind \in {"get", "getStale"}
HasEntry(slot) == slot.present /\ ~UnmarshalFails(slot.payload)
EntryOf(slot) == Unmarshal(slot.payload)
InStaleWindow(ce, t) == ce.StaleAt < t /\ t <= ce.ExpiresAt
\* Tier(i) of the specification, as the level names the library hands out
TierLevel(i) == CASE i = 0 -> "L1" [] i = 1 -> "L2" [] i = 2 -> "L3" [] OTHER -> "L?"
\* remainingTTL(entry, now) as the design states it, in seconds
RemainingFresh(ce, t) == IF ce.StaleAt > t THEN ce.StaleAt - t ELSE 0
RemainingStale(ce) == IF ce.ExpiresAt > ce.StaleAt THEN ce.ExpiresAt - ce.StaleAt ELSE 0
\* what the backends report to the metrics collaborator, and the events of
\* one call
MetricEvents ==
    {"metric:l1:decode", "metric:l1:entry_too_large", "metric:l2:decode", "metric:l2:redis"}
Events(ev) == {ev[n] : n \in 1..Len(ev)}
Logged(ev) == Events(ev) \cap {"warn", "error"} # {}
MetricRecorded(ev) == Events(ev) \cap MetricEvents # {}
\* what a direct get on tier j would return for key k in this state
WouldGet(j, k) == CacheGet(KindOf(j), store[j][k], now, TRUE, TRUE)

\* --------------------------------------------------------------- claims

\* C1: within one GetWithLevel or GetStaleWithLevel call the backends are
\* read in ascending index order from index 0, every read before the last
\* one reported not-found, the loop goes on only after a not-found, and once
\* a tier reports found the call has read exactly the tiers 0..hit index.
C1_ReadOrder ==
    IsRead(op) =>
        /\ \A n \in 1..Len(op.reads) : op.reads[n].tier = n - 1
        /\ \A n \in 1..(Len(op.reads) - 1) : ~op.reads[n].found
        /\ op.pc = "read" =>
              /\ op.i = Len(op.reads)
              /\ \A n \in 1..Len(op.reads) : ~op.reads[n].found
        /\ (op.pc # "read" /\ op.result.Found) =>
              /\ Len(op.reads) = op.i + 1
              /\ op.reads[Len(op.reads)].found

\* C1 witness: a call that returned a hit of tier 0 while tier 1 holds the
\* key too and was not read
C1_Witness ==
    /\ IsRead(op) /\ op.pc = "done" /\ op.result.Found
    /\ N >= 2 /\ Len(op.reads) = 1
    /\ HasEntry(store[1][op.key])

\* C2: a finished GetWithLevel returns found with the level and the entry
\* of the smallest index whose backend reported found, and returns nil,
\* not-found and level Miss exactly when every tier was read and none
\* reported found.
C2_FirstHitWins ==
    (op.kind = "get" /\ op.pc = "done") =>
        LET hits == {n \in 1..Len(op.reads) : op.reads[n].found}
        IN  IF hits # {}
            THEN LET n0 == CHOOSE n \in hits : \A m \in hits : n <= m
                 IN  op.result = [Entry |-> op.reads[n0].entry, Found |-> TRUE,
                                  Level |-> TierLevel(op.reads[n0].tier)]
            ELSE /\ op.result = [Entry |-> NilEntry, Found |-> FALSE, Level |-> "MISS"]
                 /\ Len(op.reads) = N

\* C2 witness: GetWithLevel returned the entry of the third tier after two misses
C2_Witness ==
    /\ op.kind = "get" /\ op.pc = "done"
    /\ op.result.Found /\ op.result.Level = "L3"
    /\ Len(op.reads) = 3

\* C3: with propagation enabled, right after a promoted write that tier j
\* accepted, a get on tier j returns the data of the hit entry with a
\* remaining TTL that is, in both components, at most the remaining TTL
\* read from the source; and a promotion that runs writes every tier below
\* the hit index.
C3_PromotedCopy ==
    [][ /\ (op.pc = "promote" /\ Len(op'.sets) = Len(op.sets) + 1
                /\ op'.sets[Len(op'.sets)].stored) =>
            LET got == CacheGet(KindOf(op.j), store'[op.j][op.key], now', TRUE, TRUE)
            IN  /\ enablePropagation /\ op.i > 0 /\ op.result.Found
                /\ got.found
                /\ got.entry.Data = op.result.Entry.Data
                /\ RemainingFresh(got.entry, now') <= RemainingFresh(op.entry, op.remAt)
                /\ RemainingStale(got.entry) <= RemainingStale(op.entry)
        /\ (op.pc = "promote" /\ op'.pc = "done") =>
            {op'.sets[n].tier : n \in 1..Len(op'.sets)} = 0..(op.i - 1)
      ]_vars

\* C3 witness: GetStaleWithLevel hit a stale entry at tier 2, and both
\* faster tiers accepted the promoted copy
C3_Witness ==
    /\ op.kind = "getStale" /\ op.pc = "done" /\ op.result.Found
    /\ op.i = 2 /\ Len(op.sets) = 2
    /\ \A n \in 1..2 : op.sets[n].stored
    /\ op.entry.StaleAt < op.remAt
    /\ HasEntry(store[0][op.key]) /\ EntryOf(store[0][op.key]).Data = op.entry.Data

\* C4: with propagation disabled a read call makes no backend write and
\* never enters the promotion, and after a hit at tier i > 0 every faster
\* tier whose read reached its store still returns not-found.
C4_NoPromotionWhenDisabled ==
    (IsRead(op) /\ ~enablePropagation) =>
        /\ op.sets = << >>
        /\ op.pc \notin {"propagate", "remaining", "promote"}
        /\ (op.pc = "done" /\ op.result.Found /\ op.i > 0) =>
              \A n \in 1..op.i :
                  op.reads[n].netOk => ~WouldGet(n - 1, op.key).found

\* C4 witness: propagation disabled, a hit at tier 1, tier 0 still empty
C4_Witness ==
    /\ IsRead(op) /\ ~enablePropagation
    /\ op.pc = "done" /\ op.result.Found /\ op.i = 1
    /\ ~store[0][op.key].present

\* C5, as claimed: the copy a promotion writes never expires later than the
\* entry that was found.
C5_CopyNotLongerLived ==
    IsRead(op) =>
        \A n \in 1..Len(op.sets) :
            op.sets[n].stored => op.sets[n].entry.ExpiresAt <= op.entry.ExpiresAt

\* C6, as claimed: the copy a promotion writes never expires earlier than
\* the entry that was found, and for a source that was fresh when its
\* remaining TTL was read the copy has the source's staleAt and expiresAt.
C6_LockStep ==
    IsRead(op) =>
        \A n \in 1..Len(op.sets) :
            op.sets[n].stored =>
                /\ op.sets[n].entry.ExpiresAt >= op.entry.ExpiresAt
                /\ op.remAt <= op.entry.StaleAt =>
                      /\ op.sets[n].entry.StaleAt = op.entry.StaleAt
                      /\ op.sets[n].entry.ExpiresAt = op.entry.ExpiresAt

\* the direct backend call on record read a decodable entry from the store
ReadAnEntry ==
    /\ last.kind \in {"get", "getStale"}
    /\ last.netOk
    /\ HasEntry(last.pre)

\* C7, as claimed: on an entry in its staleness window Get returns
\* (nil, false) and GetStale returns (entry, true).
C7_StaleGetMisses ==
    (ReadAnEntry /\ InStaleWindow(EntryOf(last.pre), last.at)) =>
        IF last.kind = "get"
        THEN ~last.res.found /\ last.res.entry = NilEntry
        ELSE last.res.found /\ last.res.entry = EntryOf(last.pre)

\* C7, amended: on an entry in its staleness window Get and GetStale both
\* return found with the stored data, and leave the key in the backend.
C7_StaleWindow ==
    (ReadAnEntry /\ InStaleWindow(EntryOf(last.pre), last.at)) =>
        /\ last.res.found
        /\ last.res.entry.Data = EntryOf(last.pre).Data
        /\ last.res.slot = last.pre

\* C7 witness: Set with fresh 1s and stale 1s at t0, Get at t0 + 2 found it
C7_Witness ==
    /\ last.kind = "get" /\ last.res.found
    /\ wrote[last.tier][last.key].ok
    /\ wrote[last.tier][last.key].ttl = [Fresh |-> Second, Stale |-> Second]
    /\ last.at = wrote[last.tier][last.key].at + 2

\* C8: a backend Get that reads an entry in its staleness window returns
\* found with the stored entry, and that entry is not fresh at the time of
\* the read nor at any later time.
C8_StaleIsFoundNotFresh ==
    (ReadAnEntry /\ last.kind = "get" /\ InStaleWindow(EntryOf(last.pre), last.at)) =>
        /\ last.res.found
        /\ last.res.entry = EntryOf(last.pre)
        /\ \A t \in last.at..MaxTime : ~IsFresh(last.res.entry, t)

\* C8 witness: a Get on the networked backend returned a stale entry
C8_Witness ==
    /\ last.kind = "get" /\ KindOf(last.tier) = "l2"
    /\ last.res.found
    /\ last.res.entry.StaleAt < last.at

C12_EmptyTierList ==
    N = 0 =>
        /\ op.pc \in {"idle", "done"}
        /\ op.reads = << >> /\ op.sets = << >> /\ op.dels = << >>
        /\ op.result = [Entry |-> NilEntry, Found |-> FALSE, Level |-> "MISS"]
        /\ store = << >>

\* C12 witness: a GetStaleWithLevel finished on the empty tier list
C12_Witness ==
    /\ N = 0
    /\ op.kind = "getStale" /\ op.pc = "done"
    /\ ~op.result.Found

\* C13: a finished Set on N >= 1 tiers has called Set once on every tier,
\* in index order, each time with the key, data and TTL it was given,
\* whatever the earlier tiers did with their write.
C13_SetFanOut ==
    (op.kind = "set" /\ N >= 1) =>
        /\ \A n \in 1..Len(op.sets) :
              /\ op.sets[n].tier = n - 1
              /\ op.sets[n].key = op.key
              /\ op.sets[n].val = op.val
              /\ op.sets[n].ttl = op.ttl
        /\ op.pc = "fanout" => Len(op.sets) = op.i /\ op.i < N
        /\ op.pc = "done" => Len(op.sets) = N

\* C13 witness: a Set over three tiers whose first two writes were not
\* stored and whose third was
C13_Witness ==
    /\ op.kind = "set" /\ op.pc = "done" /\ N = 3
    /\ ~op.sets[1].stored /\ ~op.sets[2].stored /\ op.sets[3].stored

\* C14: a finished Delete on N >= 1 tiers has called Delete once on every
\* tier, in index order, with the key it was given, whether or not the
\* tier held the key and whether or not an earlier delete reached its store.
C14_DeleteFanOut ==
    (op.kind = "delete" /\ N >= 1) =>
        /\ \A n \in 1..Len(op.dels) :
              /\ op.dels[n].tier = n - 1
              /\ op.dels[n].key = op.key
        /\ op.pc = "fanout" => Len(op.dels) = op.i /\ op.i < N
        /\ op.pc = "done" => Len(op.dels) = N

\* C14 witness: a Delete over three tiers of which the first did not hold
\* the key, the second held it and its delete failed, the third held it
C14_Witness ==
    /\ op.kind = "delete" /\ op.pc = "done" /\ N = 3
    /\ ~op.dels[1].held
    /\ op.dels[2].held /\ ~op.dels[2].netOk
    /\ op.dels[3].held /\ op.dels[3].netOk
    /\ store[1][op.key].present /\ ~store[2][op.key].present

\* C15, as claimed: a read of a networked tier that fails returns
\* not-found, logs a warning and records an error metric, and the
\* orchestrator goes on to the next tier.
C15_ReadFailureReported ==
    IsRead(op) =>
        \A n \in 1..Len(op.reads) :
            ~op.reads[n].netOk =>
                /\ ~op.reads[n].found /\ op.reads[n].entry = NilEntry
                /\ "warn" \in Events(op.reads[n].ev)
                /\ MetricRecorded(op.reads[n].ev)
                /\ n < N => (Len(op.reads) > n \/ (op.pc = "read" /\ op.i = n))

\* C16: a Set step whose serialized entry exceeds the maximum entry size
\* leaves the in-process tier as it was, reports the skip to logger and
\* metrics and goes on to the next tier; on a networked tier the same entry
\* is stored whenever its write command reached the store.
C16_OversizeSkipped ==
    [][ (op.kind = "set" /\ op.pc = "fanout" /\ Len(op'.sets) = Len(op.sets) + 1
            /\ PayloadLen(Marshal(NewEntry(op.val, op.ttl, now))) > MaxEntrySize) =>
            LET r == op'.sets[Len(op'.sets)]
            IN  IF KindOf(op.i) = "l1"
                THEN /\ store'[op.i] = store[op.i]
                     /\ ~r.stored
                     /\ Logged(r.ev) /\ "metric:l1:entry_too_large" \in Events(r.ev)
                     /\ op'.pc = IF op.i + 1 < N THEN "fanout" ELSE "done"
                ELSE /\ r.ev = << >> => r.stored
                     /\ r.stored => /\ HasEntry(store'[op.i][op.key])
                                     /\ EntryOf(store'[op.i][op.key]).Data = op.val
      ]_vars

\* C16 witness: a finished Set of an oversized value over two tiers: the
\* in-process tier still holds the earlier small value, the networked tier
\* holds the oversized one
C16_Witness ==
    /\ op.kind = "set" /\ op.pc = "done" /\ N = 2 /\ op.val = BigData
    /\ ~op.sets[1].stored /\ op.sets[2].stored
    /\ HasEntry(store[0][op.key]) /\ EntryOf(store[0][op.key]).Data = "d1"
    /\ HasEntry(store[1][op.key]) /\ EntryOf(store[1][op.key]).Data = BigData

\* C17, as claimed: once Set(k, d) was called on a backend, and until the
\* next Delete(k), a read of k that finds an entry finds d, also when the
\* backend skipped or failed that Set.
C17_NoOlderData ==
    LET w == wrote[last.tier][last.key]
    IN  (last.kind \in {"get", "getStale"} /\ w.val # "" /\ last.res.found) =>
            last.res.entry.Data = w.val

\* C18: for an entry and the time t at which its methods are called,
\* IsFresh returns true exactly when t <= staleAt, IsExpired returns true
\* exactly when t > expiresAt, and an entry reported expired at t is
\* reported not fresh at t.
C18_FreshAndExpired ==
    held.inspected =>
        /\ held.fresh <=> (held.at <= held.entry.StaleAt)
        /\ held.expired <=> (held.at > held.entry.ExpiresAt)
        /\ held.expired => ~held.fresh

\* C18 witness: an entry with a stale window, inspected after it expired
C18_Witness ==
    /\ held.inspected /\ held.expired /\ ~held.fresh
    /\ held.entry.StaleAt < held.entry.ExpiresAt

\* C19: RemainingTTL called at time t returns fresh = max(0, staleAt - t)
\* and stale = max(0, expiresAt - staleAt), as durations of whole seconds;
\* the stale component is the same at every t.
C19_RemainingTTL ==
    held.inspected =>
        /\ held.rem.Fresh = Second * RemainingFresh(held.entry, held.at)
        /\ held.rem.Stale = Second * RemainingStale(held.entry)
        /\ \A t \in 0..MaxTime : RemainingTTL(held.entry, t).Stale = held.rem.Stale

\* C19 witness: RemainingTTL called in the stale window: no fresh time
\* left, the whole stale window reported
C19_Witness ==
    /\ held.inspected
    /\ held.entry.StaleAt < held.at /\ held.at <= held.entry.ExpiresAt
    /\ held.rem = [Fresh |-> 0, Stale |-> Second]

\* C20: the entry a tier stores on a Set of the orchestrator or on a
\* promotion has createdAt = now, staleAt = now + fresh and
\* expiresAt = staleAt + stale, for the clock value of the write and the
\* TTL passed to the tier in whole seconds; and every entry held by a tier
\* satisfies createdAt <= staleAt <= expiresAt.
C20_EntryTimestamps ==
    /\ [](\A i \in Tiers, k \in Keys :
            HasEntry(store[i][k]) =>
                /\ EntryOf(store[i][k]).CreatedAt <= EntryOf(store[i][k]).StaleAt
                /\ EntryOf(store[i][k]).StaleAt <= EntryOf(store[i][k]).ExpiresAt)
    /\ [][ (Len(op'.sets) = Len(op.sets) + 1 /\ op'.sets[Len(op'.sets)].stored) =>
            LET r == op'.sets[Len(op'.sets)]
                e == EntryOf(store'[r.tier][r.key])
            IN  /\ HasEntry(store'[r.tier][r.key])
                /\ e.Data = r.val
                /\ e.CreatedAt = now
                /\ e.StaleAt = now + (r.ttl.Fresh \div Second)
                /\ e.ExpiresAt = e.StaleAt + (r.ttl.Stale \div Second)
      ]_vars

\* C20 witness: a promotion stored a copy in tier 0 after the clock moved,
\* next to a tier written by Set
C20_Witness ==
    /\ IsRead(op) /\ op.pc = "done" /\ Len(op.sets) >= 1 /\ op.sets[1].stored
    /\ now > 0
    /\ HasEntry(store[0][op.key]) /\ EntryOf(store[0][op.key]).CreatedAt = now
    /\ HasEntry(store[op.i][op.key]) /\ EntryOf(store[op.i][op.key]).CreatedAt < now

\* C21, as claimed: data that was stale when a read found it is not fresh
\* in any tier afterwards: the copy a promotion stores of an entry with
\* staleAt < now is not fresh while the tier holds it.
C21_StaleStaysStale ==
    IsRead(op) =>
        \A n \in 1..Len(op.sets) :
            LET slot == store[op.sets[n].tier][op.key]
            IN  (op.sets[n].stored /\ op.entry.StaleAt < op.remAt
                    /\ HasEntry(slot) /\ EntryOf(slot) = op.sets[n].entry) =>
                    ~IsFresh(EntryOf(slot), now)

\* C29: the promotion ends without a write exactly when the hit entry is
\* expired at its first clock read, or when the remaining TTL it then
\* computes is zero in both components; otherwise it goes on to write
\* tier 0, and each write step makes one Set call.
C29_PromotionGuards ==
    [][ /\ (op.pc = "propagate" /\ op' # op) =>
              /\ op'.sets = << >>
              /\ IF IsExpired(op.entry, now) THEN op'.pc = "done" ELSE op'.pc = "remaining"
        /\ (op.pc = "remaining" /\ op' # op) =>
              /\ op'.sets = << >>
              /\ IF RemainingFresh(op.entry, now) = 0 /\ RemainingStale(op.entry) = 0
                 THEN op'.pc = "done"
                 ELSE op'.pc = "promote" /\ op'.j = 0
        /\ (op.pc = "promote" /\ op' # op) =>
              /\ Len(op'.sets) = Len(op.sets) + 1
              /\ op'.sets[Len(op'.sets)].tier = op.j
      ]_vars

\* C29 witness: a hit at a slower tier with propagation enabled whose
\* promotion wrote nothing although the entry is not expired: no time left
C29_Witness ==
    /\ IsRead(op) /\ op.pc = "done" /\ op.result.Found /\ op.i > 0
    /\ enablePropagation /\ op.sets = << >>
    /\ ~IsExpired(op.entry, now)
    /\ op.entry.StaleAt = op.entry.ExpiresAt

\* C30: the Set calls of a read that hit at tier i go to tiers 0, 1, ..
\* in this order, all below i, each with the key, the data of the hit
\* entry and the remaining TTL computed from it; a finished read made
\* either none or one per faster tier, none after a hit at tier 0 or a
\* miss; and a promotion step leaves the hit tier and the slower tiers as
\* they are.
C30_PromotionFrame ==
    /\ [](IsRead(op) =>
            /\ \A n \in 1..Len(op.sets) :
                  /\ op.sets[n].tier = n - 1
                  /\ op.sets[n].tier < op.i
                  /\ op.sets[n].key = op.key
                  /\ op.sets[n].val = op.result.Entry.Data
                  /\ op.sets[n].ttl.Fresh = Second * RemainingFresh(op.result.Entry, op.remAt)
                  /\ op.sets[n].ttl.Stale = Second * RemainingStale(op.result.Entry)
            /\ (~op.result.Found \/ op.i = 0) => op.sets = << >>
            /\ op.pc = "done" => Len(op.sets) \in {0, op.i})
    /\ [][ (op.pc = "promote" /\ op' # op) =>
              \A t \in Tiers : t >= op.i => store'[t] = store[t] ]_vars

\* C30 witness: Get hit at tier 2, made one Set on tier 0 and one on tier
\* 1, and tier 2 still holds the entry that was found
C30_Witness ==
    /\ op.kind = "get" /\ op.pc = "done" /\ op.i = 2
    /\ Len(op.sets) = 2
    /\ HasEntry(store[2][op.key]) /\ EntryOf(store[2][op.key]) = op.result.Entry

\* the worker goroutines that have started and not returned
LiveWorkers == {w \in Workers : sched.worker[w] \in {"select", "task"}}

\* C22: at most one worker goroutine exists at any time; a Start that
\* finds the scheduler running starts none; and IsRunning returns true
\* exactly when a worker exists.
C22_SingleWorker ==
    /\ [](Cardinality(LiveWorkers) <= 1)
    /\ [][ \A c \in Callers :
              /\ (sched.pc[c] = "start" /\ sched'.pc[c] = "idle" /\ sched.running) =>
                    sched'.worker = sched.worker
              /\ (sched.pc[c] = "isRunning" /\ sched'.pc[c] = "idle") =>
                    sched'.seen[c] = IF LiveWorkers # {} THEN "true" ELSE "false" ]_vars

\* C22 witness: a Start was ignored, one worker is running, and IsRunning
\* returned true
C22_Witness ==
    /\ sched.ignored /\ sched.started = 1 /\ sched.worker[1] = "task"
    /\ sched.seen["c2"] = "true"

\* C23: while running is false no worker exists, so the task is not
\* executed; Stop returns only when no worker exists, whatever the worker
\* was doing when Stop was called, and leaves running false; a Stop that
\* finds the scheduler not running changes nothing.
C23_StopIsFinal ==
    /\ [](~sched.running => LiveWorkers = {})
    /\ [][ /\ sched'.worker # sched.worker => (sched.running \/ sched'.running)
            /\ \A c \in Callers :
                  /\ (sched.pc[c] = "wait" /\ sched'.pc[c] = "idle") =>
                        LiveWorkers = {} /\ ~sched'.running
                  /\ (sched.pc[c] = "stop" /\ sched'.pc[c] = "idle") =>
                        sched' = [sched EXCEPT !.mu = "free", !.pc[c] = "idle"] ]_vars

\* C23 witness: Stop returned after the task ran; a second scheduler run
\* was started and stopped as well
C23_Witness ==
    /\ ~sched.running /\ sched.mu = "free"
    /\ sched.runs >= 1
    /\ sched.worker[1] = "exited" /\ sched.worker[2] = "exited"

\* the position of a key type in the priority order
TypeIndex(type) == CHOOSE n \in 1..Len(KeyTypes) : KeyTypes[n] = type
\* MarkKeyAsFailed was called for the key within the last backoff period
MarkedWithinBackoff(key) ==
    /\ keyman.lastMark[key] # NeverFailed
    /\ now - keyman.lastMark[key] < keyman.backoffTime
\* the list under construction is grouped by type in priority order
GroupedByPriority(keys) ==
    \A m \in 1..Len(keys), n \in 1..Len(keys) :
        m < n => TypeIndex(keys[m].Type) <= TypeIndex(keys[n].Type)
\* the step appends this key of the current type to the list
Appends(key) ==
    /\ Len(keyman'.get.keys) = Len(keyman.get.keys) + 1
    /\ keyman'.get.keys[Len(keyman'.get.keys)] = [Key |-> key, Type |-> KeyTypes[keyman.get.ti]]
KeepsList == keyman'.get.keys = keyman.get.keys
\* the step is GetAvailableKeys looking at one key of a type with several
ChecksKey == keyman.get.pc = "key" /\ keyman'.get # keyman.get
CheckedKey == keyman.provider[KeyTypes[keyman.get.ti]][keyman.get.ki]
\* the step that enters a key type appends its key when it is the only one
SingleKeyAlwaysListed ==
    (keyman.get.pc = "type" /\ keyman'.get # keyman.get /\ keyman.get.ti <= Len(KeyTypes)) =>
        LET keys == keyman.provider[KeyTypes[keyman.get.ti]]
        IN  IF Len(keys) = 1 THEN Appends(keys[1]) ELSE KeepsList

\* C24, as claimed: the list is grouped by type in priority order; the one
\* key of a single-key type is always appended; a key of a type with
\* several keys is appended exactly when no MarkKeyAsFailed was called for
\* it within the last backoff period, and is left out otherwise.
C24_AvailableKeysClaimed ==
    /\ [](GroupedByPriority(keyman.get.keys) /\ GroupedByPriority(keyman.avail))
    /\ [][SingleKeyAlwaysListed]_vars
    /\ [][ChecksKey =>
            IF MarkedWithinBackoff(CheckedKey) THEN KeepsList ELSE Appends(CheckedKey)]_vars

\* C24, amended: as claimed for every non-empty key; the empty key is never
\* in backoff and is always appended.
C24_AvailableKeys ==
    /\ [](GroupedByPriority(keyman.get.keys) /\ GroupedByPriority(keyman.avail))
    /\ [][SingleKeyAlwaysListed]_vars
    /\ [][ChecksKey =>
            IF CheckedKey # "" /\ MarkedWithinBackoff(CheckedKey)
            THEN KeepsList ELSE Appends(CheckedKey)]_vars

\* C24 witness: GetAvailableKeys lists "a", which was marked as failed and
\* whose backoff has elapsed, leaves out "b", which is in backoff, and
\* lists the single key "c" of the second type although it is in backoff
C24_Witness ==
    /\ keyman.get.pc = "done"
    /\ keyman.get.keys = <<[Key |-> "a", Type |-> "T1"], [Key |-> "c", Type |-> "T2"]>>
    /\ keyman.lastFailed["a"] # NeverFailed /\ ~MarkedWithinBackoff("a")
    /\ MarkedWithinBackoff("b") /\ MarkedWithinBackoff("c")

\* the keys of the tried entries that satisfy a condition, in order
TriedKeys(tried, Cond(_)) ==
    LET sel == SelectSeq(tried, Cond)
    IN  [n \in 1..Len(sel) |-> sel[n].key]
ReturnedError(r) == r.err
FailedWithError(r) == r.err /\ ~r.success

\* what C25 says of the executor calls and of the return value
TryOrderAndResult ==
    LET t == keyman.try
    IN  /\ \A n \in 1..Len(t.tried) : t.tried[n].key = t.list[n].Key
        /\ \A n \in 1..(Len(t.tried) - 1) : ~t.tried[n].success
        /\ t.pc = "done" =>
              IF \E n \in 1..Len(t.tried) : t.tried[n].success
              THEN t.result = "result" /\ ~t.err
              ELSE t.result = "nil" /\ t.err /\ Len(t.tried) = Len(t.list)

\* C25, as claimed: the executor is called on the keys in list order and
\* not after a success, the call returns the successful result or nil and
\* an error, and onFailed was invoked once for each tried key whose
\* executor returned a non-nil error, in order, and for no other key.
C25_TryWithKeysClaimed ==
    keyman.try.pc \in {"loop", "done"} =>
        /\ TryOrderAndResult
        /\ keyman.try.callback =>
              keyman.try.failed = TriedKeys(keyman.try.tried, ReturnedError)

\* C25, amended: onFailed was invoked once for each tried key whose
\* executor reported no success and returned a non-nil error, and for no
\* other key; the rest as claimed.
C25_TryWithKeys ==
    keyman.try.pc \in {"loop", "done"} =>
        /\ TryOrderAndResult
        /\ keyman.try.failed =
              IF keyman.try.callback
              THEN TriedKeys(keyman.try.tried, FailedWithError)
              ELSE << >>

\* C25 witness: three keys tried: an error, a failure without error, a
\* success; onFailed was invoked for the first key only and marked it
C25_Witness ==
    /\ keyman.try.pc = "done" /\ keyman.try.callback
    /\ Len(keyman.try.tried) = 3
    /\ keyman.try.tried[1].err /\ ~keyman.try.tried[2].err /\ keyman.try.tried[3].success
    /\ keyman.try.failed = <<"a">>
    /\ keyman.try.result = "result"
    /\ keyman.lastFailed["a"] = now

\* the step is a GetLimiter lookup that hands caller c a limiter
HandsOut(c) == limiters.call[c].pc \in {"rlock", "lock"} /\ limiters'.call[c].pc = "return"
\* since the last SetConfig no two pairs were handed the same instance
DistinctPerPair ==
    \A p \in LimiterPairs, q \in LimiterPairs :
        (p # q /\ limiters.given[p] # 0) => limiters.given[p] # limiters.given[q]
\* the lookup hands out the instance the pair was handed since the last
\* SetConfig, or else a limiter that did not exist, built from the
\* configuration in force for the pair's key type
SameOrNewLimiter(c) ==
    LET call == limiters.call[c]
        lim == limiters'.call[c].lim
        limit == limitForType(limiters.config, call.keyType)
    IN  IF limiters.given[<<call.key, call.keyType>>] # 0
        THEN lim.id = limiters.given[<<call.key, call.keyType>>]
        ELSE lim = NewLimiter(limiters.made + 1, limit,
                              burstForType(limiters.config, call.keyType, limit))

\* C26: between two SetConfig calls every GetLimiter for a pair (key,
\* keyType) is handed the same limiter, also from concurrent callers, and
\* different pairs are handed different limiters; the first GetLimiter for a
\* pair after a SetConfig is handed a new limiter built from the new
\* configuration.
C26_OneLimiterPerPair ==
    /\ []DistinctPerPair
    /\ [][\A c \in Callers : HandsOut(c) => SameOrNewLimiter(c)]_vars

\* how often an event is in the handler's log
Count(events, event) == Cardinality({n \in 1..Len(events) : events[n] = event})
IsOnRequest(event) == event \in {"OnRequest:error", "OnRequest:rate_limited", "OnRequest:success"}
\* the outcomes C27 says are retried
ClaimedRetry(outcome) == outcome.err \/ outcome.status \in {429, 500, 502, 503, 504}
\* OnRequest once in every attempt, OnRetry once before every attempt but
\* the first, and nothing else
HandlerCalledAsClaimed ==
    LET ev == http.events
    IN  /\ \A n \in 1..Len(ev) :
              CASE ev[n] = "attempt" -> n = 1 \/ (n > 1 /\ ev[n - 1] = "OnRetry")
                [] ev[n] = "OnRetry" -> n > 1 /\ IsOnRequest(ev[n - 1])
                [] OTHER -> n > 1 /\ ev[n - 1] = "attempt"
        /\ http.pc \in {"loop", "done"} => (ev = << >> \/ IsOnRequest(ev[Len(ev)]))

\* C27: ExecuteRequest never ends but by returning; it sends at most
\* MaxRetries requests; a 200 response or a status that is not retried is
\* the last request and the call returns right after it, with the response
\* exactly for a 200 whose body was read; after a network error or a 429,
\* 500, 502, 503 or 504 the call returns only when MaxRetries requests
\* were sent or the rate limiter refused the next one, and then with an
\* error; the handler's OnRequest is called once per attempt and its
\* OnRetry once before each attempt after the first.
C27_RetryContract ==
    LET out == http.outcomes
        sent == Len(http.outcomes)
    IN  /\ http.pc # "panic"
        /\ sent <= http.MaxRetries
        /\ \A n \in 1..sent :
              IF ClaimedRetry(out[n])
              THEN (n = sent /\ http.pc = "done") =>
                        /\ sent = http.MaxRetries \/ http.waitFailed
                        /\ http.result = [resp |-> FALSE, err |-> TRUE]
              ELSE /\ n = sent
                   /\ http.pc = "done"
                   /\ http.result.resp = (out[n].status = 200 /\ out[n].body)
                   /\ http.result.err = ~http.result.resp
        /\ (http.pc = "done" /\ sent = 0) => http.result = [resp |-> FALSE, err |-> TRUE]
        /\ http.handler => HandlerCalledAsClaimed

\* a request of client c is answered in this step
Answered(c) == verify.req[c].pc \in {"limited", "success"} /\ verify'.req[c].pc = "idle"
\* neither the usage counter nor the number of 200 answers of a token
\* exceeds RequestsPerToken
WithinRequestsPerToken ==
    \A id \in TokenIDs :
        /\ verify.tokenUsage[id] <= verify.RequestsPerToken
        /\ verify.ok[id] <= verify.RequestsPerToken

\* C28: for a valid token with an ID the usage counter and the number of
\* 200 answers never exceed RequestsPerToken, however the requests
\* interleave, and a request that arrives after the token got
\* RequestsPerToken 200 answers is answered 429.
C28_TokenBudget ==
    /\ []WithinRequestsPerToken
    /\ [][\A c \in Clients :
                (Answered(c) /\ verify.req[c].late) => verify'.req[c].status = 429]_vars

\* C28 witness: token t1 got its two 200 answers, and a request with t1
\* that arrived later was answered 429
C28_Witness ==
    /\ verify.RequestsPerToken = 2
    /\ verify.ok["t1"] = 2
    /\ verify.req["r1"].token = "t1" /\ verify.req["r1"].status = 200
    /\ verify.req["r1"].currentUsage = 0
    /\ verify.req["r2"].token = "t1" /\ verify.req["r2"].status = 200
    /\ verify.req["r2"].currentUsage = 1
    /\ verify.req["r3"].token = "t1" /\ verify.req["r3"].late
    /\ verify.req["r3"].status = 429

\* C31: on an orchestrator with zero tiers a finished GetWithLevel,
\* GetStaleWithLevel, Set or Delete has logged exactly one warning.
C31_ZeroTiersWarnOnce ==
    (N = 0 /\ op.pc = "done") => op.warns = 1

\* C32: a GetStaleWithLevel read that reaches a tier's store and finds a
\* corrupted payload gets not-found from it, the tier reports a decode error to metrics, and
\* the in-process tier no longer holds the key, as for a GetWithLevel read.
C32_StaleReadOfCorrupt ==
    op.kind = "getStale" =>
        \A n \in 1..Len(op.reads) :
            (op.reads[n].corrupt /\ op.reads[n].netOk) =>
                /\ ~op.reads[n].found
                /\ MetricRecorded(op.reads[n].ev)
                /\ KindOf(op.reads[n].tier) = "l1" => op.reads[n].purged

\* the steps a read call still has before it, at most
StepsLeft(o) ==
    CASE o.pc = "read" -> 2 * N + 3 - o.i
      [] o.pc = "propagate" -> o.i + 2
      [] o.pc = "remaining" -> o.i + 1
      [] o.pc = "promote" -> o.i - o.j
      [] OTHER -> 0
\* the call in progress can take its next step
CanStep ==
    CASE op.pc = "read" -> ENABLED ReadTier
      [] op.pc = "propagate" -> ENABLED PropagateExpired
      [] op.pc = "remaining" -> ENABLED PropagateRemaining
      [] op.pc = "promote" -> ENABLED PromoteTier
      [] OTHER -> TRUE
\* a read call made at most N backend reads and at most hitIndex writes
ReadsAndWritesBounded ==
    IsRead(op) =>
        /\ Len(op.reads) <= N
        /\ Len(op.sets) <= (IF op.result.Found THEN op.i ELSE 0)
        /\ \A n \in 1..Len(op.sets) : op.sets[n].tier = n - 1
        /\ CanStep
\* each step of a read call brings it closer to its return, and once it
\* has left the read loop it reads no backend again
ReadCallAdvances ==
    (IsRead(op) /\ op' # op /\ op'.kind = op.kind) =>
        /\ StepsLeft(op') < StepsLeft(op)
        /\ op.pc # "read" => op'.reads = op.reads /\ op'.pc # "read"

\* C33: a GetWithLevel or GetStaleWithLevel call on N tiers makes at most
\* N backend reads and at most hitIndex backend writes, to tiers 0, 1, ..
\* in this order; it is never blocked, every step brings it closer to its
\* return, and after the read loop it makes no further read.
C33_BoundedRead ==
    /\ []ReadsAndWritesBounded
    /\ [][ReadCallAdvances]_vars

\* C33 witness: a finished call over three tiers that read all three and
\* promoted the entry of the last one to the two tiers before it
C33_Witness ==
    /\ IsRead(op) /\ op.pc = "done"
    /\ N = 3 /\ Len(op.reads) = 3 /\ Len(op.sets) = 2
    /\ op.result.Found

\* C35: whenever the networked backend holds an entry that its Set stored,
\* the store has an expiration for the key and it falls in the second of
\* the entry's expiresAt.
C35_NativeExpiryIsHardExpiry ==
    \A i \in Tiers, k \in Keys :
        (KindOf(i) = "l2" /\ HasEntry(store[i][k])) =>
            /\ store[i][k].exp # NoExpiry
            /\ store[i][k].exp = EntryOf(store[i][k]).ExpiresAt

\* the latest read in the log of the call in progress was added by this step
ReadsNow == IsRead(op') /\ Len(op'.reads) = Len(op.reads) + 1
\* an entry reported found is there and was not expired at the clock value
\* of the check
FoundUnexpired(found, entry, t) ==
    found => (entry # NilEntry /\ t <= entry.ExpiresAt)

\* C39: a backend Get or GetStale that reports found returns a non-nil entry
\* with now <= expiresAt at the time of the call, and so does every
\* GetWithLevel and GetStaleWithLevel: the entry it returns as found is the
\* one a backend read reported.
C39_NoExpiredHit ==
    /\ [][ReadsNow =>
            LET r == op'.reads[Len(op'.reads)]
            IN  FoundUnexpired(r.found, r.entry, now)]_vars
    /\ [](op.result.Found =>
            /\ op.result.Entry # NilEntry
            /\ \E n \in 1..Len(op.reads) :
                    op.reads[n].found /\ op.reads[n].entry = op.result.Entry)

\* C39 witness: a GetStaleWithLevel returned an entry of the networked tier
\* in the last second before its hard expiry
C39_Witness ==
    /\ op.kind = "getStale" /\ op.pc = "done" /\ op.result.Found
    /\ op.result.Level = "L2"
    /\ op.result.Entry.ExpiresAt = now
    /\ op.result.Entry.StaleAt < now

\* a step of a Set or Delete that is going through the tiers writes the tier
\* it is at and no other, and goes on to the next index
WritesOneTier ==
    (peer' # peer /\ peer.pc = "fanout") =>
        /\ peer'.i = peer.i + 1
        /\ \A j \in Tiers \ {peer.i} : store'[j] = store[j]
\* a reader is not held up while a Set or Delete is between two tiers
ReaderNotExcluded ==
    peer.pc = "fanout" =>
        /\ op.kind = "idle" => \A k \in Keys : ENABLED GetWithLevel(k)
        /\ op.pc = "read" => ENABLED ReadTier

\* C34: a Set or Delete writes one tier per step, in ascending index order,
\* and a reader can run between two of its steps (the witness: a reader that
\* got d2 from tier 0 while tier 1 still holds the previous value).
C34_TierByTier ==
    /\ []ReaderNotExcluded
    /\ [][WritesOneTier]_vars

\* C34 witness: Set(k, d2) has written tier 0 and not yet tier 1, which
\* holds d1, and a GetWithLevel that ran meanwhile returned d2 from tier 0
C34_Witness ==
    /\ peer.kind = "set" /\ peer.pc = "fanout" /\ peer.i = 1
    /\ op.kind = "get" /\ op.pc = "done" /\ op.key = peer.key
    /\ op.result.Found /\ op.result.Level = "L1" /\ op.result.Entry.Data = "d2"
    /\ HasEntry(store[1][op.key]) /\ EntryOf(store[1][op.key]).Data = "d1"

\* the read in op has finished and hit at a tier after the first
ReadHitBelow == IsRead(op) /\ op.pc = "done" /\ op.result.Found /\ op.i > 0
\* the Set or Delete of the second goroutine has finished, and every tier
\* took its write
PeerFinished(kind) == peer.kind = kind /\ peer.pc = "done" /\ peer.stored /\ peer.key = op.key

\* C36: once a Set(k, d2) and a read of k that hit the older d1 at tier i > 0
\* have both finished, every tier before i holds d2.
C36_PromotionKeepsNewer ==
    (ReadHitBelow /\ op.result.Entry.Data = "d1" /\ PeerFinished("set")) =>
        \A j \in 0..(op.i - 1) :
            /\ HasEntry(store[j][op.key])
            /\ EntryOf(store[j][op.key]).Data = "d2"

\* C37: once a Delete(k) and a read of k that hit at tier i > 0 have both
\* finished, no tier holds an entry for k.
C37_DeleteNotUndone ==
    (ReadHitBelow /\ PeerFinished("delete")) =>
        \A j \in Tiers : ~store[j][op.key].present

\* the delete step of a backend read takes away an entry
EvictsEntry ==
    /\ peer.pc = "evict" /\ peer'.pc = "done"
    /\ HasEntry(store[peer.i][peer.key])
    /\ ~store'[peer.i][peer.key].present

\* C38: when a backend Get or GetStale deletes the key after reading an
\* expired or corrupted payload, the entry it removes is the payload it read,
\* never one that a Set stored since.
C38_EvictsOnlyWhatItRead ==
    [][EvictsEntry => store[peer.i][peer.key] = peer.seen]_vars

\* no read has an entry to return
NoHit == ~op.result.Found
\* at MaxTime an entry that no longer ages has expired
AgedExpired(ce) == (now = MaxTime /\ ce.StaleAt <= 0) => IsExpired(ce, now)
AgingSound ==
    /\ AgedExpired(op.entry) \/ op.entry = NilEntry
    /\ \A i \in Tiers, k \in Keys :
            HasEntry(store[i][k]) => AgedExpired(EntryOf(store[i][k]))

\* C40: with no Set after second 0, time advancing and every call running to
\* its end, from some point on every GetWithLevel and GetStaleWithLevel is a
\* miss, whatever reads and promotions happened before.
C40_EventuallyMiss ==
    /\ []AgingSound
    /\ <>[]NoHit

\* C40 witness: at MaxTime a GetStaleWithLevel has promoted a stale entry of
\* a later tier into tier 0, where the copy expires later than its source
C40_Witness ==
    /\ now = MaxTime
    /\ op.kind = "getStale" /\ op.pc = "done" /\ op.result.Found /\ op.i > 0
    /\ Len(op.sets) > 0 /\ op.sets[1].stored
    /\ HasEntry(store[0][op.key])
    /\ EntryOf(store[0][op.key]).ExpiresAt > op.entry.ExpiresAt

====
